---- MODULE Spec2Model ----
(***************************************************************************)
(* Model of the session lifecycle manager of mtproto-rest                  *)
(* (app/session_manager.py) and of the validation it relies on             *)
(* (app/models.py).  One action per manager operation; every call to the   *)
(* protocol client (connect, is_user_authorized, send_code_request,        *)
(* sign_in, disconnect) and to the file system is an input of the action,  *)
(* drawn from the outcomes that call can have.                             *)
(***************************************************************************)
EXTENDS Integers, Sequences, FiniteSets, TLC

\* ------------------------------------------------------------------ bounds

\* Number of protocol clients the manager may construct in one behaviour.
MaxClients == 2

\* Number of entries of a sessions file that this process did not write.
MaxEntries == 2

\* Length of the strings passed to the validators of models.py.
MaxLen == 3

\* Length of the strings passed as verification code.
MaxCodeLen == 7

\* Largest message id of the messages whose link is generated.
MaxMessageId == 2

\* Number of message links of a forward request.
MaxLinks == 2

\* Largest absolute value of the integers passed to the validators.
MaxNumber == 25

\* Number of calls that may fail for a reason outside the protocol (connect
\* or disconnect raising, the sessions file not writable) in one behaviour.
MaxFaults == 1

\* ------------------------------------------------------- optional values

\* Python's None and a present value v, for Optional fields.
None == {}

Some(v) == {v}

\* ------------------------------------------------------------ phone input

\* Phone numbers are strings, modelled as sequences of one-character strings.
Digits == {"0", "1", "2", "3", "4", "5", "6", "7", "8", "9"}

\* A decimal digit outside ASCII: ARABIC-INDIC DIGIT TWO, one character,
\* written here by its code point.  int() reads it as 2.
ArabicIndicTwo == "U+0662"

\* The characters \d matches in a str pattern: every Unicode decimal digit.
DecimalDigits == Digits \cup {ArabicIndicTwo}

\* What validate_phone returns nothing for (it raises ValueError).
Invalid == << >>

\* re.sub(r'[\s-]', '', v): the characters removed before matching.
Separator(ch) == ch \in {" ", "-"}

NotSeparator(ch) == ~Separator(ch)

\* PHONE_PATTERN = ^\+?[1-9]\d{1,14}$
PHONE_PATTERN(v) ==
    LET body == IF v # << >> /\ Head(v) = "+" THEN Tail(v) ELSE v
    IN  /\ Len(body) >= 2
        /\ Len(body) <= 15
        /\ body[1] \in Digits \ {"0"}
        /\ \A i \in 2..Len(body) : body[i] \in DecimalDigits

\* str.lstrip('+')
RECURSIVE lstrip_plus(_)
lstrip_plus(v) ==
    IF v # << >> /\ Head(v) = "+" THEN lstrip_plus(Tail(v)) ELSE v

\* validate_phone without the '+' of line 28: the cleaned string is returned
\* as it matched.
validate_phone_as_matched(v) ==
    LET cleaned == SelectSeq(v, NotSeparator)
    IN  IF PHONE_PATTERN(cleaned) THEN cleaned ELSE Invalid

\* PhoneNumber.validate_phone for a string input.
validate_phone(v) ==
    LET cleaned == SelectSeq(v, NotSeparator)
    IN  IF PHONE_PATTERN(cleaned) THEN <<"+">> \o lstrip_plus(cleaned) ELSE Invalid

\* str(n) for an integer n.
DigitChars == <<"0", "1", "2", "3", "4", "5", "6", "7", "8", "9">>

RECURSIVE str_digits(_)
str_digits(n) ==
    IF n < 10 THEN <<DigitChars[n + 1]>>
    ELSE str_digits(n \div 10) \o <<DigitChars[(n % 10) + 1]>>

str_int(n) == IF n < 0 THEN <<"-">> \o str_digits(0 - n) ELSE str_digits(n)

\* A str value and an int value, as pydantic hands them to a validator of a
\* Union[str, int] field.
StrValue(chars) == [type |-> "str", value |-> chars]

IntValue(n) == [type |-> "int", value |-> n]

\* Lines 20-24 of validate_phone and line 198 of validate_code: str(v), with
\* an int converted by str(int(v)).
to_str(v) == IF v.type = "int" THEN str_int(v.value) ELSE v.value

\* PhoneNumber.validate_phone for a str or an int.
validate_phone_value(v) == validate_phone(to_str(v))

\* The phone inputs callers pass: two numbers, each in several spellings, and
\* inputs that fail validation.
RawPhones ==
    { <<"+", "1", "2">>, <<"1", "-", "2">>, <<"3", " ", "4">>, <<"0", "1">> }

\* validate_phone on the inputs of the model, computed once.
Normalized == [x \in RawPhones |-> validate_phone(x)]

\* The canonical phone numbers of the model: the keys of every map.
Phones == { validate_phone(x) : x \in RawPhones } \ {Invalid}

\* ------------------------------------------------------------- the remote

\* The user id the remote reports for the account of a phone (me.id, user.id).
UserIdOf(p) == IF p = <<"+", "1", "2">> THEN 101 ELSE 102

\* The session string a client signed in to the account of phone p exports
\* (client.session.save()).  Two authorizations of one account are not told
\* apart.
SessionStringOf(p) == 1000 + UserIdOf(p)

\* The phone_code_hash the remote returns for the code it sent through client c.
PhoneCodeHashOf(c) == c

\* Outcomes of _create_client: connect raises; connect succeeds and
\* is_user_authorized raises (the connection stays open); success.
CreateOutcomes == {"ok", "connect_raises", "authcheck_raises"}

\* Outcomes of client.is_user_authorized() followed by client.get_me().
AuthorizedOutcomes == {"no", "yes", "raises"}

\* Outcomes of client.send_code_request.
SendCodeOutcomes == {"ok", "phone_invalid", "raises"}

\* Outcomes of client.sign_in(phone, code, phone_code_hash=...).
\* code_invalid stands for PhoneCodeInvalidError and PhoneCodeExpiredError, which
\* one except clause handles.
SignInOutcomes ==
    {"ok", "password_needed", "code_invalid", "flood_wait", "rpc_error"}

\* Outcomes of client.sign_in(password=...).
PasswordOutcomes == {"ok", "password_invalid", "flood_wait"}

\* Outcomes of client.disconnect(): it returns with the connection closed, or
\* it raises before the connection is closed.
DisconnectOutcomes == {"ok", "raises"}

\* Outcomes of writing sessions.json: written; or open() raises and the file
\* keeps what it held.
WriteOutcomes == {"ok", "open_raises"}

\* ------------------------------------------------------------------ state

VARIABLES
    sessions,     \* self._sessions: phone -> session record
    clients,      \* self._clients: phone -> client
    stored,       \* the file sessions/sessions.json
    connected,    \* the clients whose connection is open
    awaiting2fa,  \* the live handles whose sign_in answered SessionPasswordNeededError
    nextClient,   \* the number of the next client that is constructed
    faults,       \* the number of calls that failed so far (see MaxFaults)
    last,         \* the operation that ran last: its inputs and what it returned
    tasks,        \* the coroutines in progress: operation, phone, await reached, locals
    Message_chat_info  \* the class attribute Message._chat_info of models.py

vars ==
    <<sessions, clients, stored, connected, awaiting2fa, nextClient, faults, last,
      tasks, Message_chat_info>>

\* ------------------------------------------------------------------- maps

EmptyMap == [k \in {} |-> None]

Put(f, k, v) == [q \in DOMAIN f \cup {k} |-> IF q = k THEN v ELSE f[q]]

Remove(f, k) == [q \in DOMAIN f \ {k} |-> f[q]]

\* ---------------------------------------------------------------- records

\* The record start_auth stores when the code was sent.
PendingRecord == [session_string |-> None, user_id |-> None]

\* The record stored after a successful sign-in.
CompletedRecord(blob, uid) == [session_string |-> Some(blob), user_id |-> Some(uid)]

\* info.get("session_string") is truthy.
HasSessionString(rec) == rec.session_string # None

\* SessionString(value=v): StringSession(v) parses the string.  Session
\* strings are numbered; those a client exports are positive, and 0 stands for
\* a string StringSession rejects.
StringSessionValid(blob) == blob > 0

\* StoredSession(**info) validates: session_string, when present, parses;
\* user_id, when present, is positive.
StoredSessionValid(rec) ==
    /\ \A b \in rec.session_string : StringSessionValid(b)
    /\ \A u \in rec.user_id : u > 0

\* ------------------------------------------------------------ persistence

FileOf(data) == [kind |-> "ok", data |-> data]

MissingFile == [kind |-> "missing", data |-> EmptyMap]

\* A sessions.json that json.load cannot parse, or whose content is no object.
MalformedFile == [kind |-> "malformed", data |-> EmptyMap]

\* A sessions.json as found, not written by this process: the entries of its
\* JSON object in the order of the file, each a key and the value under it.
FoundFile(entries) == [kind |-> "found", data |-> entries]

\* The loop of lines 66-83 without line 74: each valid entry is kept under the
\* key the file gives it.
RECURSIVE load_entries_raw_keys(_)
load_entries_raw_keys(entries) ==
    IF entries = << >> THEN EmptyMap
    ELSE LET before == load_entries_raw_keys(SubSeq(entries, 1, Len(entries) - 1))
             e == entries[Len(entries)]
         IN  IF validate_phone(e.phone) # Invalid /\ StoredSessionValid(e.info)
             THEN Put(before, e.phone, e.info)
             ELSE before

\* The loop of lines 66-83 over the entries of a file as found: an entry whose
\* key or value fails validation is skipped, and an entry whose key normalizes
\* to a phone met before replaces the earlier one.
RECURSIVE load_entries(_)
load_entries(entries) ==
    IF entries = << >> THEN EmptyMap
    ELSE LET before == load_entries(SubSeq(entries, 1, Len(entries) - 1))
             e == entries[Len(entries)]
         IN  IF validate_phone(e.phone) # Invalid /\ StoredSessionValid(e.info)
             THEN Put(before, validate_phone(e.phone), e.info)
             ELSE before

\* The entries of a map that pass the per-entry validation of _load_sessions
\* and _save_sessions, under their normalized keys.
ValidEntries(data) ==
    LET good == { k \in DOMAIN data :
                    validate_phone(k) # Invalid /\ StoredSessionValid(data[k]) }
    IN  [q \in { validate_phone(k) : k \in good } |->
            data[CHOOSE k \in good : validate_phone(k) = q]]

\* SessionManager._load_sessions: the record map after reading the file.
load_sessions(file) ==
    CASE file.kind = "ok" -> ValidEntries(file.data)
      [] file.kind = "found" -> load_entries(file.data)
      [] OTHER -> EmptyMap

\* _save_sessions writing the validated entries over those the file holds
\* instead of replacing the file's content (line 125 opening for update).
save_sessions_merged(sess, file, w) ==
    LET new == ValidEntries(sess)
    IN  IF w = "ok"
        THEN FileOf([q \in DOMAIN file.data \cup DOMAIN new |->
                        IF q \in DOMAIN new THEN new[q] ELSE file.data[q]])
        ELSE file

\* SessionManager._save_sessions: the file after the call; w is the outcome of
\* the write.  An exception is logged and not raised again.
save_sessions(sess, file, w) ==
    IF w = "ok" THEN FileOf(ValidEntries(sess)) ELSE file

\* ---------------------------------------------------------------- clients

\* SessionManager._cleanup_client: the live-handle map and the open
\* connections after the call; d is the outcome of client.disconnect().
cleanup_client(cl, conn, p, d) ==
    IF p \notin DOMAIN cl
    THEN [clients |-> cl, connected |-> conn]
    ELSE IF d = "ok"
    THEN [clients |-> Remove(cl, p), connected |-> conn \ {cl[p]}]
    ELSE [clients |-> cl, connected |-> conn]

\* The remote calls _cleanup_client makes.
cleanup_calls(cl, p) == IF p \in DOMAIN cl THEN {"disconnect"} ELSE {}

\* SessionManager._create_client: whether a client object was constructed and
\* whether its connection is open when the call ends.
Constructed(co) == co \in CreateOutcomes

Opened(co) == co \in {"ok", "authcheck_raises"}

create_calls(co) ==
    IF co = "connect_raises" THEN {"connect"} ELSE {"connect", "is_user_authorized"}

\* ------------------------------------------------------------ what returns

\* An operation that returned a value.
Returned(op, p, value, hash, calls, created, arg, remote) ==
    [op |-> op, phone |-> p, raised |-> FALSE, value |-> value,
     status |-> 200, detail |-> "", hash |-> hash, calls |-> calls,
     created |-> created, session_arg |-> arg, remote |-> remote,
     handle |-> None]

\* An operation that raised HTTPException(status_code, detail).
Raised(op, p, st, detail, calls, created, arg, remote) ==
    [op |-> op, phone |-> p, raised |-> TRUE, value |-> "",
     status |-> st, detail |-> detail, hash |-> None, calls |-> calls,
     created |-> created, session_arg |-> arg, remote |-> remote,
     handle |-> None]

\* PhoneNumber(phone_number=...) raised pydantic's ValidationError, which is not
\* an HTTPException and carries no status code.
RaisedValidation(op) ==
    [op |-> op, phone |-> Invalid, raised |-> TRUE, value |-> "",
     status |-> 0, detail |-> "validation_error", hash |-> None, calls |-> {},
     created |-> {}, session_arg |-> None, remote |-> "", handle |-> None]

\* The error of complete_auth and complete_2fa for a phone without live handle.
NoActiveSession(r) ==
    r.raised /\ r.status = 400 /\ r.detail = "no_pending_authentication"

\* ------------------------------------------------------------ coroutines

\* The coroutines that may be in progress at once on the event loop.
Tasks == {"a", "b"}

\* A coroutine slot in which no operation is in progress.
Idle == [op |-> "idle", phone |-> Invalid, pc |-> "idle", old |-> None, client |-> None]

\* ------------------------------------------------------------------- Init

\* The sessions file the process starts with: none, or a file holding pending
\* and completed records written by an earlier run.
InitialFiles ==
    {MissingFile} \cup
    { FileOf([p \in Phones |->
                IF p = <<"+", "1", "2">>
                THEN CompletedRecord(SessionStringOf(p), UserIdOf(p))
                ELSE PendingRecord]) }

Init ==
    /\ stored \in InitialFiles
    /\ sessions = load_sessions(stored)
    /\ clients = EmptyMap
    /\ connected = {}
    /\ awaiting2fa = {}
    /\ nextClient = 1
    /\ faults = 0
    /\ last = Returned("init", Invalid, "", None, {}, {}, None, "")
    /\ tasks = [t \in Tasks |-> Idle]
    /\ Message_chat_info = None

\* The state as one value, for the operations below.
State ==
    [sessions |-> sessions, clients |-> clients, stored |-> stored,
     connected |-> connected, awaiting2fa |-> awaiting2fa,
     nextClient |-> nextClient]

\* The outcomes an operation draws for a call: all of them when the call is
\* made, and one (which the operation does not read) when it is not.
Among(made, outcomes) == IF made THEN outcomes ELSE {"ok"}

\* The largest value of nextClient with which an operation may begin: one that
\* constructs a client needs a client number within the bound.
ClientsLeft(constructs) == IF constructs THEN MaxClients ELSE MaxClients + 1

\* Whether the phone x names has a live handle.
Registered(s, x) == Normalized[x] \in DOMAIN s.clients

\* The live handle of phone p in the live-handle map cl, if any.
HandleOf(cl, p) == IF p \in DOMAIN cl THEN Some(cl[p]) ELSE None

\* The number of failed calls among the outcomes an operation drew.
RECURSIVE Faults(_)
Faults(outcomes) ==
    IF outcomes = << >> THEN 0
    ELSE (IF Head(outcomes) = "ok" THEN 0 ELSE 1) + Faults(Tail(outcomes))

\* The state s with the operation's report r, after n failed calls.
Becomes(s, r, n) ==
    /\ faults + n <= MaxFaults
    /\ faults' = faults + n
    /\ sessions' = s.sessions
    /\ clients' = s.clients
    /\ stored' = s.stored
    /\ connected' = s.connected
    /\ awaiting2fa' = { c \in s.awaiting2fa : \E p \in DOMAIN s.clients : s.clients[p] = c }
    /\ nextClient' = s.nextClient
    /\ last' = [r EXCEPT !.handle = HandleOf(clients, r.phone)]
    /\ tasks' = tasks
    /\ Message_chat_info' = Message_chat_info

\* ------------------------------------------------------------- start_auth

\* The test of lines 253-254 left out: start_auth never takes the short cut.
already_authorized_never(sess, p) == FALSE

\* Lines 253-254: a record with a session string exists for the phone.
already_authorized(sess, p) == p \in DOMAIN sess /\ HasSessionString(sess[p])

\* SessionManager.start_auth(x): the state and the report after the call.
\* co, au, sc are the outcomes of _create_client, of is_user_authorized and
\* get_me, and of send_code_request; d1 and d2 of the disconnect in the first
\* and in the second _cleanup_client; w of the write of _save_sessions.
start_auth(s, x, co, au, sc, d1, d2, w) ==
    LET p == Normalized[x]
        c == s.nextClient
        \* line 259: clean up any existing client
        c1 == cleanup_client(s.clients, s.connected, p, d1)
        calls1 == cleanup_calls(s.clients, p) \cup create_calls(co)
        \* line 263: the new client
        made == IF Constructed(co) THEN {c} ELSE {}
        conn1 == IF Opened(co) THEN c1.connected \cup {c} ELSE c1.connected
        s1 == [s EXCEPT !.clients = c1.clients, !.connected = conn1,
                        !.nextClient = IF Constructed(co) THEN c + 1 ELSE c]
        \* line 303: the clean-up of the inner except
        c2 == cleanup_client(c1.clients, conn1, p, d2)
        calls2 == cleanup_calls(c1.clients, p)
        failed(calls, remote) ==
            [state |-> [s1 EXCEPT !.clients = c2.clients, !.connected = c2.connected],
             last |-> Raised("start_auth", p, 400, "failed_to_start_authentication",
                             calls \cup calls2, made, None, remote)]
    IN  IF p = Invalid
        THEN [state |-> s,
              last |-> Raised("start_auth", p, 400, "failed_to_start_authentication",
                              {}, {}, None, "validation")]
        ELSE IF already_authorized(s.sessions, p)
        THEN [state |-> s,
              last |-> Returned("start_auth", p, "already_authorized", None,
                                {}, {}, None, "")]
        ELSE IF co # "ok"
        THEN [state |-> s1,
              last |-> Raised("start_auth", p, 400, "failed_to_start_authentication",
                              calls1, made, None, co)]
        ELSE IF au = "raises"
        THEN failed(calls1 \cup {"is_user_authorized"}, "authorized_raises")
        ELSE IF au = "yes"
        THEN LET sess == Put(s.sessions, p,
                             CompletedRecord(SessionStringOf(p), UserIdOf(p)))
             IN  [state |-> [s1 EXCEPT !.sessions = sess,
                                       !.stored = save_sessions(sess, s.stored, w)],
                  last |-> Returned("start_auth", p, "already_authorized", None,
                                    calls1 \cup {"is_user_authorized", "get_me"},
                                    made, None, "authorized")]
        ELSE IF sc # "ok"
        THEN failed(calls1 \cup {"is_user_authorized", "send_code_request"}, sc)
        ELSE LET sess == Put(s.sessions, p, PendingRecord)
             IN  [state |-> [s1 EXCEPT !.clients = Put(c1.clients, p, c),
                                       !.sessions = sess,
                                       !.stored = save_sessions(sess, s.stored, w)],
                  last |-> Returned("start_auth", p, "code_sent",
                                    Some(PhoneCodeHashOf(c)),
                                    calls1 \cup {"is_user_authorized", "send_code_request"},
                                    made, None, "code_sent")]

\* Whether start_auth(x) gets as far as constructing a client.
start_auth_constructs(s, x) ==
    LET p == Normalized[x]
    IN  p # Invalid /\ ~already_authorized(s.sessions, p)

StartAuth ==
    \E x \in RawPhones :
      \E co \in Among(start_auth_constructs(State, x), CreateOutcomes) :
        \E au \in Among(start_auth_constructs(State, x) /\ co = "ok",
                         AuthorizedOutcomes) :
          \E sc \in Among(start_auth_constructs(State, x) /\ co = "ok" /\ au = "no",
                           SendCodeOutcomes) :
            \E d1 \in Among(start_auth_constructs(State, x) /\ Registered(State, x),
                             DisconnectOutcomes) :
              \E d2 \in Among(d1 # "ok" /\ co = "ok"
                                  /\ (au = "raises" \/ (au = "no" /\ sc # "ok")),
                               DisconnectOutcomes) :
                \E w \in Among(co = "ok" /\ (au = "yes" \/ (au = "no" /\ sc = "ok")),
                                WriteOutcomes) :
                    /\ nextClient <= ClientsLeft(start_auth_constructs(State, x))
                    /\ LET r == start_auth(State, x, co, au, sc, d1, d2, w)
                       IN  Becomes(r.state, r.last, Faults(<<co, d1, d2, w>>))

\* ---------------------------------------------------------- complete_auth

\* Lines 326-373 of complete_auth, for a phone p that has a live handle: so is
\* the outcome of client.sign_in, d of the disconnect in _cleanup_client, w of
\* the write.
complete_auth_with_client(s, p, so, d, w) ==
    LET c == s.clients[p]
        needs_2fa == so = "password_needed"
        \* lines 370-373: the finally block
        fin == IF needs_2fa
               THEN [clients |-> s.clients, connected |-> s.connected]
               ELSE cleanup_client(s.clients, s.connected, p, d)
        calls == {"sign_in"} \cup
                 (IF needs_2fa THEN {} ELSE cleanup_calls(s.clients, p))
        s1 == [s EXCEPT !.clients = fin.clients, !.connected = fin.connected]
        raise(detail) ==
            Raised("complete_auth", p, 400, detail, calls, {}, None, so)
    IN  CASE so = "password_needed" ->
                [state |-> [s1 EXCEPT !.awaiting2fa = @ \cup {c}],
                 last |-> raise("2fa_password_required")]
          [] so = "code_invalid" ->
                [state |-> s1, last |-> raise("phone_code_invalid")]
          [] so \in {"flood_wait", "rpc_error"} ->
                [state |-> s1,
                 last |-> raise("failed_to_complete_authentication")]
          [] so = "ok" ->
                LET sess == Put(s.sessions, p,
                                CompletedRecord(SessionStringOf(p), UserIdOf(p)))
                IN  [state |-> [s1 EXCEPT
                                  !.sessions = sess,
                                  !.stored = save_sessions(sess, s.stored, w)],
                     last |-> Returned("complete_auth", p, "session_info", None,
                                       calls, {}, None, so)]

\* complete_auth without the test of lines 320-324: the look-up of line 326
\* raises KeyError, which is no HTTPException.
complete_auth_unchecked(s, x, so, d, w) ==
    LET p == Normalized[x]
    IN  IF p = Invalid
        THEN [state |-> s, last |-> RaisedValidation("complete_auth")]
        ELSE IF p \notin DOMAIN s.clients
        THEN [state |-> s,
              last |-> Raised("complete_auth", p, 0, "key_error", {}, {}, None, "")]
        ELSE complete_auth_with_client(s, p, so, d, w)

\* SessionManager.complete_auth(x, code, phone_code_hash).
complete_auth(s, x, so, d, w) ==
    LET p == Normalized[x]
    IN  IF p = Invalid
        THEN [state |-> s, last |-> RaisedValidation("complete_auth")]
        ELSE IF p \notin DOMAIN s.clients
        THEN [state |-> s,
              last |-> Raised("complete_auth", p, 400, "no_pending_authentication",
                              {}, {}, None, "")]
        ELSE complete_auth_with_client(s, p, so, d, w)

CompleteAuth ==
    \E x \in RawPhones :
      \E so \in Among(Registered(State, x), SignInOutcomes) :
        \E d \in Among(Registered(State, x) /\ so # "password_needed",
                        DisconnectOutcomes) :
          \E w \in Among(Registered(State, x) /\ so = "ok", WriteOutcomes) :
            LET r == complete_auth(State, x, so, d, w)
            IN  Becomes(r.state, r.last, Faults(<<d, w>>))

\* ----------------------------------------------------------- complete_2fa

\* complete_2fa with an except clause (lines 407-412) that resets the record of
\* the phone to a pending one before raising.
complete_2fa_resets_record(s, x, po, d, w) ==
    LET p == Normalized[x]
        c == s.clients[p]
        fin == cleanup_client(s.clients, s.connected, p, d)
        calls == {"sign_in_password"} \cup cleanup_calls(s.clients, p)
        s1 == [s EXCEPT !.clients = fin.clients, !.connected = fin.connected]
    IN  IF p = Invalid
        THEN [state |-> s, last |-> RaisedValidation("complete_2fa")]
        ELSE IF p \notin DOMAIN s.clients
        THEN [state |-> s,
              last |-> Raised("complete_2fa", p, 400, "no_pending_authentication",
                              {}, {}, None, "")]
        ELSE IF po = "ok"
        THEN LET sess == Put(s.sessions, p,
                             CompletedRecord(SessionStringOf(p), UserIdOf(p)))
             IN  [state |-> [s1 EXCEPT
                               !.sessions = sess,
                               !.stored = save_sessions(sess, s.stored, w)],
                  last |-> Returned("complete_2fa", p, "session_info", None,
                                    calls, {}, None, po)]
        ELSE [state |-> [s1 EXCEPT !.sessions = Put(s.sessions, p, PendingRecord)],
              last |-> Raised("complete_2fa", p, 400, "failed_to_complete_2fa",
                              calls, {}, None, po)]

\* SessionManager.complete_2fa(x, password): po is the outcome of
\* client.sign_in(password=...), d of the disconnect, w of the write.
complete_2fa(s, x, po, d, w) ==
    LET p == Normalized[x]
        c == s.clients[p]
        \* lines 413-414: the finally block
        fin == cleanup_client(s.clients, s.connected, p, d)
        calls == {"sign_in_password"} \cup cleanup_calls(s.clients, p)
        s1 == [s EXCEPT !.clients = fin.clients, !.connected = fin.connected]
    IN  IF p = Invalid
        THEN [state |-> s, last |-> RaisedValidation("complete_2fa")]
        ELSE IF p \notin DOMAIN s.clients
        THEN [state |-> s,
              last |-> Raised("complete_2fa", p, 400, "no_pending_authentication",
                              {}, {}, None, "")]
        ELSE IF po = "ok"
        THEN LET sess == Put(s.sessions, p,
                             CompletedRecord(SessionStringOf(p), UserIdOf(p)))
             IN  [state |-> [s1 EXCEPT
                               !.sessions = sess,
                               !.stored = save_sessions(sess, s.stored, w)],
                  last |-> Returned("complete_2fa", p, "session_info", None,
                                    calls, {}, None, po)]
        ELSE [state |-> s1,
              last |-> Raised("complete_2fa", p, 400, "failed_to_complete_2fa",
                              calls, {}, None, po)]

Complete2fa ==
    \E x \in RawPhones :
      \E po \in Among(Registered(State, x), PasswordOutcomes) :
        \E d \in Among(Registered(State, x), DisconnectOutcomes) :
          \E w \in Among(Registered(State, x) /\ po = "ok", WriteOutcomes) :
            LET r == complete_2fa(State, x, po, d, w)
            IN  Becomes(r.state, r.last, Faults(<<d, w>>))

\* ------------------------------------------------------------- get_client

\* The test of lines 221-222 without its second half: any record will do.
has_session_any_record(sess, p) == p \in DOMAIN sess

\* Lines 221-222: the phone has a record with a session string.
has_session(sess, p) == p \in DOMAIN sess /\ HasSessionString(sess[p])

\* get_client with the normalization of line 216 moved behind _create_client:
\* a client is constructed and connected before the phone is rejected.
get_client_validates_late(s, x, co, d) ==
    LET p == Normalized[x]
        c == s.nextClient
        session_string == s.sessions[p].session_string
        c1 == cleanup_client(s.clients, s.connected, p, d)
        calls == cleanup_calls(s.clients, p) \cup create_calls(co)
        made == IF Constructed(co) THEN {c} ELSE {}
        conn1 == IF Opened(co) THEN c1.connected \cup {c} ELSE c1.connected
        s1 == [s EXCEPT !.clients = c1.clients, !.connected = conn1,
                        !.nextClient = IF Constructed(co) THEN c + 1 ELSE c]
    IN  IF p = Invalid
        THEN [state |-> [s EXCEPT !.connected = @ \cup {c}, !.nextClient = c + 1],
              last |-> [RaisedValidation("get_client") EXCEPT
                          !.calls = {"connect", "is_user_authorized"},
                          !.created = {c}]]
        ELSE IF ~has_session(s.sessions, p)
        THEN [state |-> s,
              last |-> Raised("get_client", p, 404, "session_not_found",
                              {}, {}, None, "")]
        ELSE IF co = "ok"
        THEN [state |-> [s1 EXCEPT !.clients = Put(c1.clients, p, c)],
              last |-> Returned("get_client", p, "client", None, calls, made,
                                session_string, co)]
        ELSE [state |-> s1,
              last |-> Raised("get_client", p, 400, "failed_to_create_client",
                              calls, made, session_string, co)]

\* SessionManager.get_client(x): co is the outcome of _create_client, d of the
\* disconnect in _cleanup_client.
get_client(s, x, co, d) ==
    LET p == Normalized[x]
        c == s.nextClient
        session_string == s.sessions[p].session_string
        \* line 234
        c1 == cleanup_client(s.clients, s.connected, p, d)
        calls == cleanup_calls(s.clients, p) \cup create_calls(co)
        made == IF Constructed(co) THEN {c} ELSE {}
        conn1 == IF Opened(co) THEN c1.connected \cup {c} ELSE c1.connected
        s1 == [s EXCEPT !.clients = c1.clients, !.connected = conn1,
                        !.nextClient = IF Constructed(co) THEN c + 1 ELSE c]
    IN  IF p = Invalid
        THEN [state |-> s, last |-> RaisedValidation("get_client")]
        ELSE IF ~has_session(s.sessions, p)
        THEN [state |-> s,
              last |-> Raised("get_client", p, 404, "session_not_found",
                              {}, {}, None, "")]
        ELSE IF co = "ok"
        THEN [state |-> [s1 EXCEPT !.clients = Put(c1.clients, p, c)],
              last |-> Returned("get_client", p, "client", None, calls, made,
                                session_string, co)]
        ELSE [state |-> s1,
              last |-> Raised("get_client", p, 400, "failed_to_create_client",
                              calls, made, session_string, co)]

\* Whether get_client(x) gets as far as constructing a client.
get_client_constructs(s, x) ==
    LET p == Normalized[x]
    IN  p # Invalid /\ has_session(s.sessions, p)

GetClient ==
    \E x \in RawPhones :
      \E co \in Among(get_client_constructs(State, x), CreateOutcomes) :
        \E d \in Among(get_client_constructs(State, x) /\ Registered(State, x),
                        DisconnectOutcomes) :
            /\ nextClient <= ClientsLeft(get_client_constructs(State, x))
            /\ LET r == get_client(State, x, co, d)
               IN  Becomes(r.state, r.last, Faults(<<co, d>>))

\* --------------------------------------------------------- remove_session

\* SessionManager.remove_session(x): d is the outcome of the disconnect, w of
\* the write.
remove_session(s, x, d, w) ==
    LET p == Normalized[x]
        c1 == cleanup_client(s.clients, s.connected, p, d)
        sess == Remove(s.sessions, p)
    IN  IF p = Invalid
        THEN [state |-> s, last |-> RaisedValidation("remove_session")]
        ELSE IF p \notin DOMAIN s.sessions
        THEN [state |-> s,
              last |-> Raised("remove_session", p, 404, "session_not_found",
                              {}, {}, None, "")]
        ELSE [state |-> [s EXCEPT !.clients = c1.clients,
                                  !.connected = c1.connected,
                                  !.sessions = sess,
                                  !.stored = save_sessions(sess, s.stored, w)],
              last |-> Returned("remove_session", p, "removed", None,
                                cleanup_calls(s.clients, p), {}, None, "")]

RemoveSession ==
    \E x \in RawPhones :
      \E d \in Among(Registered(State, x), DisconnectOutcomes) :
        \E w \in Among(Normalized[x] \in DOMAIN sessions, WriteOutcomes) :
            LET r == remove_session(State, x, d, w)
            IN  Becomes(r.state, r.last, Faults(<<d, w>>))

\* ---------------------------------------------------------- list_sessions

\* Line 426: the records list_sessions keeps are those with a session string.
listed(rec) == HasSessionString(rec)

\* SessionInfo(...) of lines 419-424 validates: session_string is a str and
\* user_id an int, both required.
SessionInfoValid(rec) == rec.session_string # None /\ rec.user_id # None

\* The comprehension of lines 418-427 over the items of keys, in some order.
RECURSIVE list_items(_, _)
list_items(sess, keys) ==
    IF keys = {} THEN << >>
    ELSE LET p == CHOOSE q \in keys : TRUE
             rest == list_items(sess, keys \ {p})
         IN  IF listed(sess[p])
             THEN <<[phone_number |-> p,
                     session_string |-> sess[p].session_string,
                     user_id |-> sess[p].user_id]>> \o rest
             ELSE rest

\* SessionManager.list_sessions(): the list it returns, or the ValidationError
\* of the first SessionInfo that cannot be built.
list_sessions(sess) ==
    IF \E p \in DOMAIN sess : listed(sess[p]) /\ ~SessionInfoValid(sess[p])
    THEN [raised |-> TRUE, value |-> << >>]
    ELSE [raised |-> FALSE, value |-> list_items(sess, DOMAIN sess)]

\* ------------------------------------------------------------------- Next

Next ==
    \/ StartAuth
    \/ CompleteAuth
    \/ Complete2fa
    \/ GetClient
    \/ RemoveSession

Spec == Init /\ [][Next]_vars

\* ------------------------------------------------------- forward_messages

\* Outcomes of the work of the route between get_client and its finally
\* block (lines 69-144): messages are forwarded and their new ids returned;
\* the request is rejected before anything is sent (HTTPException 400 of lines
\* 70-73, 86-89 and 94-98); the forward request completes and yields no id
\* (HTTPException 404 of lines 136-140); a remote call raises.
ForwardOutcomes == {"ok", "rejected", "none_forwarded", "raises"}

\* The remote calls the work of the route has made when it ends.
forward_calls(fo) == IF fo = "rejected" THEN {} ELSE {"forward"}

\* Lines 146-150: every exception of the try block, the HTTPExceptions raised
\* inside it included, is raised again as HTTPException(500, str(e)).
forward_detail(fo) ==
    CASE fo = "rejected" -> "rejected_request"
      [] fo = "none_forwarded" -> "no_messages_forwarded"
      [] OTHER -> "forward_failed"

\* routes/forward.py forward_messages for source_phone x: co and d1 are the
\* outcomes of get_client's _create_client and disconnect, fo of the
\* forwarding, d2 of the disconnect in the finally block.
forward_messages(s, x, co, d1, fo, d2) ==
    LET p == Normalized[x]
        g == get_client(s, x, co, d1)
        \* lines 151-153: source_client is set, so the handle is cleaned up
        fin == cleanup_client(g.state.clients, g.state.connected, p, d2)
        calls == g.last.calls \cup cleanup_calls(g.state.clients, p)
    IN  IF p = Invalid
        THEN [state |-> s, last |-> RaisedValidation("forward_messages")]
        ELSE IF g.last.raised
        THEN [state |-> g.state,
              last |-> Raised("forward_messages", p, 500, g.last.detail,
                              g.last.calls, g.last.created, g.last.session_arg,
                              g.last.remote)]
        ELSE IF fo = "ok"
        THEN [state |-> [g.state EXCEPT !.clients = fin.clients,
                                        !.connected = fin.connected],
              last |-> Returned("forward_messages", p, "success", None,
                                calls \cup forward_calls(fo), g.last.created,
                                g.last.session_arg, fo)]
        ELSE [state |-> [g.state EXCEPT !.clients = fin.clients,
                                        !.connected = fin.connected],
              last |-> Raised("forward_messages", p, 500, forward_detail(fo),
                              calls \cup forward_calls(fo), g.last.created,
                              g.last.session_arg, fo)]

ForwardMessages ==
    \E x \in RawPhones :
      \E co \in Among(get_client_constructs(State, x), CreateOutcomes) :
        \E d1 \in Among(get_client_constructs(State, x) /\ Registered(State, x),
                         DisconnectOutcomes) :
          \E fo \in Among(get_client_constructs(State, x) /\ co = "ok",
                           ForwardOutcomes) :
            \E d2 \in Among(get_client_constructs(State, x) /\ co = "ok",
                             DisconnectOutcomes) :
                /\ nextClient <= ClientsLeft(get_client_constructs(State, x))
                /\ LET r == forward_messages(State, x, co, d1, fo, d2)
                   IN  Becomes(r.state, r.last, Faults(<<co, d1, d2>>))

\* The operations behind the requests of the HTTP interface, one at a time:
\* get_client is called by forward_messages only, and the two verify requests
\* are taken to reach complete_auth and complete_2fa.
NextRequests ==
    \/ StartAuth
    \/ CompleteAuth
    \/ Complete2fa
    \/ ForwardMessages
    \/ RemoveSession

SpecRequests == Init /\ [][NextRequests]_vars

\* ------------------------------------------- operations, await by await

\* The operations as the event loop runs them: a coroutine runs until it
\* awaits a remote call, and any other coroutine may run before it resumes.
\* The awaits are client.disconnect() in _cleanup_client, _create_client,
\* the code request of start_auth and client.sign_in; the code between two
\* awaits, _save_sessions included, runs without interruption.

TaskOps == {"start_auth", "complete_auth", "complete_2fa", "get_client",
            "remove_session"}

\* Outcomes of the awaits of start_auth after the client is created (lines
\* 268-285): the code is sent, the account is authorized already, or a call
\* raises.
CodeRequestOutcomes == {"code_sent", "authorized", "raises"}

\* A coroutine of operation op for phone p suspended at pc, with the locals
\* `client` of _cleanup_client (old) and of the operation (client).
Suspended(op, p, pc, old, client) ==
    [op |-> op, phone |-> p, pc |-> pc, old |-> old, client |-> client]

\* _cleanup_client, lines 204-205: the client it is about to disconnect.
cleanup_begin(cl, p) == HandleOf(cl, p)

\* _cleanup_client resumed and nothing done: the client h stays connected and
\* the entry stays.
cleanup_resume_keeps(cl, conn, p, h) == [clients |-> cl, connected |-> conn]

\* _cleanup_client, lines 207-208, once disconnect() of client h returned: the
\* connection of h is closed and the entry that is now under the phone is
\* deleted (a KeyError, when there is none, is caught at line 210).
cleanup_resume(cl, conn, p, h) ==
    [clients |-> IF p \in DOMAIN cl THEN Remove(cl, p) ELSE cl,
     connected |-> conn \ h]

\* remove_session, lines 441-442; the del raises KeyError when another
\* coroutine deleted the record meanwhile.
delete_record(s, p) ==
    IF p \in DOMAIN s.sessions
    THEN LET sess == Remove(s.sessions, p)
         IN  [s EXCEPT !.sessions = sess,
                       !.stored = save_sessions(sess, s.stored, "ok")]
    ELSE s

\* A _cleanup_client that ends the operation (the finally blocks, line 303):
\* it suspends on disconnect() when the phone has a handle.
final_cleanup(s, tk) ==
    IF tk.phone \in DOMAIN s.clients
    THEN [state |-> s,
          task |-> Suspended(tk.op, tk.phone, "cleanup_then_return",
                             cleanup_begin(s.clients, tk.phone), tk.client)]
    ELSE [state |-> s, task |-> Idle]

\* A _cleanup_client followed by more of the operation (pc names what).
cleanup_then(s, op, p, pc, after) ==
    IF p \in DOMAIN s.clients
    THEN [state |-> s,
          task |-> Suspended(op, p, pc, cleanup_begin(s.clients, p), None)]
    ELSE after

\* An operation from its first line to its first await.
task_begin(s, op, p) ==
    LET done == [state |-> s, task |-> Idle]
        create == [state |-> s, task |-> Suspended(op, p, "create", None, None)]
    IN  CASE op = "start_auth" ->
                IF already_authorized(s.sessions, p) THEN done
                ELSE cleanup_then(s, op, p, "cleanup_then_create", create)
          [] op = "get_client" ->
                IF ~has_session(s.sessions, p) THEN done
                ELSE cleanup_then(s, op, p, "cleanup_then_create", create)
          [] op \in {"complete_auth", "complete_2fa"} ->
                IF p \notin DOMAIN s.clients THEN done
                ELSE [state |-> s,
                      task |-> Suspended(op, p, "sign_in", None, Some(s.clients[p]))]
          [] op = "remove_session" ->
                IF p \notin DOMAIN s.sessions THEN done
                ELSE cleanup_then(s, op, p, "cleanup_then_delete",
                                  [state |-> delete_record(s, p), task |-> Idle])

\* disconnect() returned to the coroutine tk.
task_disconnected(s, tk) ==
    LET c == cleanup_resume(s.clients, s.connected, tk.phone, tk.old)
        s1 == [s EXCEPT !.clients = c.clients, !.connected = c.connected]
    IN  CASE tk.pc = "cleanup_then_create" ->
                [state |-> s1, task |-> [tk EXCEPT !.pc = "create", !.old = None]]
          [] tk.pc = "cleanup_then_delete" ->
                [state |-> delete_record(s1, tk.phone), task |-> Idle]
          [] tk.pc = "cleanup_then_return" ->
                [state |-> s1, task |-> Idle]

\* _create_client returned to the coroutine tk, or raised, with outcome co.
task_created(s, tk, co) ==
    LET c == s.nextClient
        s1 == [s EXCEPT !.nextClient = c + 1,
                        !.connected = IF Opened(co) THEN @ \cup {c} ELSE @]
    IN  IF co # "ok"
        THEN [state |-> s1, task |-> Idle]
        ELSE IF tk.op = "get_client"
        THEN [state |-> [s1 EXCEPT !.clients = Put(@, tk.phone, c)], task |-> Idle]
        ELSE [state |-> s1,
              task |-> [tk EXCEPT !.pc = "send", !.client = Some(c)]]

\* start_auth resumed after its code request, lines 268-304.
task_code_requested(s, tk, out) ==
    LET p == tk.phone
        c == CHOOSE h \in tk.client : TRUE
        put(rec) == LET sess == Put(s.sessions, p, rec)
                    IN  [s EXCEPT !.sessions = sess,
                                  !.stored = save_sessions(sess, s.stored, "ok")]
    IN  CASE out = "code_sent" ->
                [state |-> [put(PendingRecord) EXCEPT !.clients = Put(@, p, c)],
                 task |-> Idle]
          [] out = "authorized" ->
                [state |-> put(CompletedRecord(SessionStringOf(p), UserIdOf(p))),
                 task |-> Idle]
          [] out = "raises" -> final_cleanup(s, tk)

\* complete_auth (lines 331-373) and complete_2fa (lines 389-414) resumed
\* after client.sign_in with outcome out.
task_signed_in(s, tk, out) ==
    LET p == tk.phone
        sess == Put(s.sessions, p, CompletedRecord(SessionStringOf(p), UserIdOf(p)))
        stored_ok == [s EXCEPT !.sessions = sess,
                               !.stored = save_sessions(sess, s.stored, "ok")]
    IN  IF out = "ok" THEN final_cleanup(stored_ok, tk)
        ELSE IF out = "password_needed" /\ tk.op = "complete_auth"
        THEN [state |-> [s EXCEPT !.awaiting2fa = @ \cup tk.client], task |-> Idle]
        ELSE final_cleanup(s, tk)

\* What sign_in may answer: anything while the client is connected, and an
\* error once another coroutine has disconnected it.
SignInAnswers(s, tk) ==
    IF tk.client \subseteq s.connected
    THEN IF tk.op = "complete_auth" THEN SignInOutcomes ELSE PasswordOutcomes
    ELSE {"rpc_error"}

\* The coroutine t moved on to tk and left the state s.
Resumes(t, tk, s, p) ==
    /\ tasks' = [tasks EXCEPT ![t] = tk]
    /\ Message_chat_info' = Message_chat_info
    /\ sessions' = s.sessions
    /\ clients' = s.clients
    /\ stored' = s.stored
    /\ connected' = s.connected
    /\ awaiting2fa' = { c \in s.awaiting2fa : \E q \in DOMAIN s.clients : s.clients[q] = c }
    /\ nextClient' = s.nextClient
    /\ faults' = faults
    /\ last' = Returned("await", p, "", None, {}, {}, None, "")

TaskBegin ==
    \E t \in Tasks, op \in TaskOps, p \in Phones :
        /\ tasks[t] = Idle
        /\ LET r == task_begin(State, op, p)
           IN  Resumes(t, r.task, r.state, p)

TaskDisconnected ==
    \E t \in Tasks :
        /\ tasks[t].pc \in {"cleanup_then_create", "cleanup_then_delete",
                            "cleanup_then_return"}
        /\ LET r == task_disconnected(State, tasks[t])
           IN  Resumes(t, r.task, r.state, tasks[t].phone)

TaskCreated ==
    \E t \in Tasks, co \in CreateOutcomes :
        /\ tasks[t].pc = "create"
        /\ nextClient <= MaxClients
        /\ LET r == task_created(State, tasks[t], co)
           IN  Resumes(t, r.task, r.state, tasks[t].phone)

TaskCodeRequested ==
    \E t \in Tasks, out \in CodeRequestOutcomes :
        /\ tasks[t].pc = "send"
        /\ LET r == task_code_requested(State, tasks[t], out)
           IN  Resumes(t, r.task, r.state, tasks[t].phone)

TaskSignedIn ==
    \E t \in Tasks :
        /\ tasks[t].pc = "sign_in"
        /\ \E out \in SignInAnswers(State, tasks[t]) :
             LET r == task_signed_in(State, tasks[t], out)
             IN  Resumes(t, r.task, r.state, tasks[t].phone)

NextTasks ==
    \/ TaskBegin
    \/ TaskDisconnected
    \/ TaskCreated
    \/ TaskCodeRequested
    \/ TaskSignedIn

SpecTasks == Init /\ [][NextTasks]_vars

\* --------------------------------------- files this program did not write

\* Sessions files as an older version or an editor may have left them: the
\* fields of a record are validated one by one (StoredSession), so a record may
\* hold a session string without user id, or a user id without session string.
ForeignFiles ==
    { FileOf([p \in Phones |->
                IF p = <<"+", "1", "2">>
                THEN [session_string |-> Some(SessionStringOf(p)), user_id |-> None]
                ELSE PendingRecord]),
      FileOf([p \in Phones |->
                IF p = <<"+", "1", "2">>
                THEN CompletedRecord(SessionStringOf(p), UserIdOf(p))
                ELSE [session_string |-> None, user_id |-> Some(UserIdOf(p))]]) }

InitAnyFile ==
    /\ stored \in ForeignFiles
    /\ sessions = load_sessions(stored)
    /\ clients = EmptyMap
    /\ connected = {}
    /\ awaiting2fa = {}
    /\ nextClient = 1
    /\ faults = 0
    /\ last = Returned("init", Invalid, "", None, {}, {}, None, "")
    /\ tasks = [t \in Tasks |-> Idle]
    /\ Message_chat_info = None

SpecAnyFile == InitAnyFile /\ [][Next]_vars

\* ------------------------------------------------- any file, and restarts

\* The values a sessions file as found may hold under a key: a pending and a
\* completed record, a record whose user id is not positive, and a record
\* whose session string does not parse.
FoundInfos ==
    { PendingRecord,
      CompletedRecord(SessionStringOf(<<"+", "1", "2">>), UserIdOf(<<"+", "1", "2">>)),
      [session_string |-> None, user_id |-> Some(0)],
      [session_string |-> Some(0), user_id |-> Some(UserIdOf(<<"+", "1", "2">>))] }

\* The entries of a JSON object, in file order: the keys are distinct strings,
\* in any spelling.
FoundEntries ==
    { es \in UNION { [1..n -> [phone : RawPhones, info : FoundInfos]] :
                       n \in 0..MaxEntries } :
        \A i \in 1..Len(es) : \A j \in 1..Len(es) :
            i # j => es[i].phone # es[j].phone }

FoundFiles == {MissingFile, MalformedFile} \cup { FoundFile(es) : es \in FoundEntries }

InitFound ==
    /\ stored \in FoundFiles
    /\ sessions = load_sessions(stored)
    /\ clients = EmptyMap
    /\ connected = {}
    /\ awaiting2fa = {}
    /\ nextClient = 1
    /\ faults = 0
    /\ last = Returned("init", Invalid, "", None, {}, {}, None, "")
    /\ tasks = [t \in Tasks |-> Idle]
    /\ Message_chat_info = None

\* The process ends and a new one starts: SessionManager() is constructed on
\* the sessions file the old process left.  The connections of the old process
\* are closed with it.
Restart ==
    /\ sessions' = load_sessions(stored)
    /\ clients' = EmptyMap
    /\ connected' = {}
    /\ awaiting2fa' = {}
    /\ last' = Returned("init", Invalid, "", None, {}, {}, None, "")
    /\ tasks' = [t \in Tasks |-> Idle]
    /\ Message_chat_info' = None
    /\ UNCHANGED <<stored, nextClient, faults>>

NextFound ==
    \/ RemoveSession
    \/ Restart

SpecFound == InitFound /\ [][NextFound]_vars

\* ------------------------------------------- the validators of models.py

\* The characters of the strings passed to validate_phone.
PhoneAlphabet == {"+", "0", "1", "2", "-", " ", ArabicIndicTwo}

\* The values passed as phone_number: strings and integers.
PhoneInputs ==
    { StrValue(chars) : chars \in UNION { [1..n -> PhoneAlphabet] : n \in 0..MaxLen } }
        \cup { IntValue(n) : n \in (0 - MaxNumber)..MaxNumber }

\* The report of a validator or of a link generator of models.py: what it was
\* given and what it returned; raised when it raised ValueError.
Validated(op, v, out) ==
    [op |-> op, arg |-> v, raised |-> out = Invalid, value |-> out]

\* A value handed to a model of models.py, before the model has run.
Given(op, v) == [op |-> "given", to |-> op, arg |-> v]

\* SuperscriptTwo is one character, written by its code point: str.isdigit()
\* is true of it and str.isdecimal() is not.
SuperscriptTwo == "U+00B2"

\* str.isdigit(): every character is a digit, and there is at least one.
isdigit(chars) ==
    /\ chars # << >>
    /\ \A i \in 1..Len(chars) : chars[i] \in DecimalDigits \cup {SuperscriptTwo}

\* str.strip(): leading and trailing whitespace removed.
RECURSIVE lstrip(_)
lstrip(chars) ==
    IF chars # << >> /\ Head(chars) = " " THEN lstrip(Tail(chars)) ELSE chars

RECURSIVE rstrip(_)
rstrip(chars) ==
    IF chars # << >> /\ chars[Len(chars)] = " "
    THEN rstrip(SubSeq(chars, 1, Len(chars) - 1)) ELSE chars

strip(chars) == rstrip(lstrip(chars))

\* Line 205: the length validate_code requires.
CodeLength == 5

\* CodeVerification.validate_code: the code as a string, or Invalid when it
\* raises ValueError.
validate_code(v) ==
    LET code_str == strip(to_str(v))
    IN  IF ~isdigit(code_str) THEN Invalid
        ELSE IF Len(code_str) # CodeLength THEN Invalid
        ELSE code_str

\* The characters of the strings passed as code.
CodeAlphabet == {"1", "a", " ", SuperscriptTwo}

\* The values passed as code: strings, and integers around the numbers of
\* CodeLength digits.
CodeInputs ==
    { StrValue(chars) : chars \in UNION { [1..n -> CodeAlphabet] : n \in 0..MaxCodeLen } }
        \cup { IntValue(n) : n \in (0 - MaxNumber)..MaxNumber }
        \cup { IntValue(11111 + n) : n \in (0 - MaxNumber)..MaxNumber }
        \cup { IntValue(10000 - n) : n \in 0..MaxNumber }
        \cup { IntValue(99999 + n) : n \in 0..MaxNumber }

InitModels ==
    /\ last \in { Given("validate_phone", v) : v \in PhoneInputs }
                \cup { Given("validate_code", v) : v \in CodeInputs }
    /\ stored = MissingFile
    /\ sessions = load_sessions(stored)
    /\ clients = EmptyMap
    /\ connected = {}
    /\ awaiting2fa = {}
    /\ nextClient = 1
    /\ faults = 0
    /\ tasks = [t \in Tasks |-> Idle]
    /\ Message_chat_info = None

\* PhoneNumber(phone_number=v).
ValidatePhone ==
    /\ last.op = "given"
    /\ last.to = "validate_phone"
    /\ last' = Validated("validate_phone", last.arg, validate_phone_value(last.arg))
    /\ UNCHANGED <<sessions, clients, stored, connected, awaiting2fa, nextClient,
                   faults, tasks, Message_chat_info>>

\* CodeVerification(code=v, ...), for the field code.
ValidateCode ==
    /\ last.op = "given"
    /\ last.to = "validate_code"
    /\ last' = Validated("validate_code", last.arg, validate_code(last.arg))
    /\ UNCHANGED <<sessions, clients, stored, connected, awaiting2fa, nextClient,
                   faults, tasks, Message_chat_info>>

NextModels ==
    \/ ValidatePhone
    \/ ValidateCode

SpecModels == InitModels /\ [][NextModels]_vars

\* ------------------------------------------------- the links of models.py

\* abs(n)
abs(n) == IF n < 0 THEN 0 - n ELSE n

\* Python's truth test of an Optional[str]: None and the empty string are
\* false.
TruthyStr(opt) == opt \notin {None, Some(<< >>)}

\* Python's truth test of an Optional[int]: None and 0 are false.
TruthyInt(opt) == opt \notin {None, Some(0)}

\* What a link generator returns for no link: None for a message.
NoLink == << >>

\* An f-string: a literal followed by formatted values, as one string.  The
\* literal is kept as one element.
Link(literal, rest) == <<literal>> \o rest

\* The chat types of Chat.type.
ChatTypes == {"private", "group", "channel"}

\* The usernames of the model: none, the empty string, and a name.
Usernames == {None, Some(<< >>), Some(<<"u">>)}

\* The chat ids of the model, 0 and negative ids among them.
ChatIds == (0 - MaxNumber)..MaxNumber

\* generate_chat_link without abs(): the id of a channel as it is.
generate_chat_link_signed(chat) ==
    IF TruthyStr(chat.username)
    THEN Link("https://t.me/", CHOOSE u \in chat.username : TRUE)
    ELSE IF ~TruthyInt(chat.chat_id) THEN NoLink
    ELSE LET chat_id == CHOOSE c \in chat.chat_id : TRUE
         IN  CASE chat.type = "channel" -> Link("https://t.me/c/", str_int(chat_id))
               [] chat.type = "private" -> Link("tg://user?id=", str_int(chat_id))
               [] OTHER -> Link("tg://chat?id=", str_int(chat_id))

\* Chat.generate_chat_link(v, values) for the values of a chat; the empty
\* string it returns for no link is NoLink.
generate_chat_link(chat) ==
    IF TruthyStr(chat.username)
    THEN Link("https://t.me/", CHOOSE u \in chat.username : TRUE)
    ELSE IF ~TruthyInt(chat.chat_id) THEN NoLink
    ELSE LET chat_id == CHOOSE c \in chat.chat_id : TRUE
         IN  CASE chat.type = "channel" -> Link("https://t.me/c/", str_int(abs(chat_id)))
               [] chat.type = "private" -> Link("tg://user?id=", str_int(chat_id))
               [] OTHER -> Link("tg://chat?id=", str_int(chat_id))

\* The values of a Chat: chat_id is a required int.
ChatInputs ==
    [chat_id : { Some(c) : c \in ChatIds }, type : ChatTypes, username : Usernames]

\* The rules of lines 101-109 for a chat without username.
message_link_by_type(chat, message_id) ==
    IF ~TruthyInt(chat.chat_id) THEN NoLink
    ELSE LET chat_id == CHOOSE c \in chat.chat_id : TRUE
         IN  CASE chat.type = "channel" ->
                    Link("https://t.me/c/",
                         str_int(abs(chat_id)) \o <<"/">> \o str_int(message_id))
               [] chat.type = "private" ->
                    Link("tg://openmessage?chat_id=",
                         str_int(chat_id) \o <<"&message_id=">> \o str_int(message_id))
               [] OTHER ->
                    Link("tg://openmessage?chat_id=",
                         str_int(chat_id) \o <<"&message_id=">> \o str_int(message_id))

\* generate_message_link without lines 93-95: the username is not looked at.
generate_message_link_no_username(message_id, chat_info) ==
    IF chat_info = None \/ message_id = 0 THEN NoLink
    ELSE message_link_by_type(CHOOSE c \in chat_info : TRUE, message_id)

\* Message.generate_message_link(v, values) for a message with the given
\* message_id, with Message._chat_info as given: None, or the chat's values.
generate_message_link(message_id, chat_info) ==
    IF chat_info = None \/ message_id = 0 THEN NoLink
    ELSE LET chat == CHOOSE c \in chat_info : TRUE
         IN  IF TruthyStr(chat.username)
             THEN Link("https://t.me/",
                       (CHOOSE u \in chat.username : TRUE) \o <<"/">> \o str_int(message_id))
             ELSE message_link_by_type(chat, message_id)

\* The message ids of the model; 0 is the id the truth test of line 84 takes
\* for no id.
MessageIds == 0..MaxMessageId

\* Message._chat_info when a Message is built: None, or the chat's values,
\* whose chat_id may be missing.
ChatInfos ==
    {None} \cup
    { Some(chat) : chat \in [chat_id : {None} \cup { Some(c) : c \in ChatIds },
                             type : ChatTypes, username : Usernames] }

MessageInputs == [message_id : MessageIds, chat_info : ChatInfos]

\* The values handed to the link generators.
InitLinks ==
    /\ last \in { Given("generate_chat_link", chat) : chat \in ChatInputs }
                \cup { Given("generate_message_link", m) : m \in MessageInputs }
    /\ stored = MissingFile
    /\ sessions = load_sessions(stored)
    /\ clients = EmptyMap
    /\ connected = {}
    /\ awaiting2fa = {}
    /\ nextClient = 1
    /\ faults = 0
    /\ tasks = [t \in Tasks |-> Idle]
    /\ Message_chat_info = None

\* The report of a link generator: what it was given and the link.
Generated(op, v, link) == [op |-> op, arg |-> v, raised |-> FALSE, value |-> link]

\* Chat(**data): the link is generated after initialization.
GenerateChatLink ==
    /\ last.op = "given"
    /\ last.to = "generate_chat_link"
    /\ last' = Generated("generate_chat_link", last.arg, generate_chat_link(last.arg))
    /\ UNCHANGED <<sessions, clients, stored, connected, awaiting2fa, nextClient,
                   faults, tasks, Message_chat_info>>

\* Message(**data): the link is generated after initialization.
GenerateMessageLink ==
    /\ last.op = "given"
    /\ last.to = "generate_message_link"
    /\ last' = Generated("generate_message_link", last.arg,
                         generate_message_link(last.arg.message_id, last.arg.chat_info))
    /\ UNCHANGED <<sessions, clients, stored, connected, awaiting2fa, nextClient,
                   faults, tasks, Message_chat_info>>

NextLinks ==
    \/ GenerateChatLink
    \/ GenerateMessageLink

SpecLinks == InitLinks /\ [][NextLinks]_vars

\* ------------------------------------- the work of the forward route

\* The parts of the path of a message link: chat usernames and numbers.
LinkNames == {"a", "b"}

LinkNumbers == {"7", "8"}

\* int(part) of line 49, for the numbers of the model.
int_of(part) == IF part = "7" THEN 7 ELSE 8

\* A message link: whether it begins with https://t.me/, and the parts that
\* the '/' of its path separate.
MessageLink(https, parts) == [https |-> https, parts |-> parts]

\* ForwardRequest.validate_telegram_link(link): username and message id, or
\* Invalid when it raises ValueError.
validate_telegram_link(link) ==
    IF Len(link.parts) = 2 /\ link.parts[2] \in LinkNumbers
    THEN [username |-> link.parts[1], message_id |-> int_of(link.parts[2])]
    ELSE Invalid

\* source_chat as a str (a username, with or without '@') and as an int (a
\* chat id).
SourceUsername(at, name) == [type |-> "str", at |-> at, name |-> name]

SourceChatId(id) == [type |-> "int", id |-> id]

\* The requests of the model.
SourceChats ==
    { SourceUsername(at, n) : at \in BOOLEAN, n \in LinkNames }
        \cup { SourceChatId(5), SourceChatId(6) }

MessageLinks ==
    { MessageLink(h, ps) : h \in BOOLEAN,
                           ps \in { <<"a", "7">>, <<"a", "8">>, <<"b", "7">>,
                                    <<"a", "b">>, <<"c", "7", "8">> } }

ForwardRequests ==
    [source_chat : SourceChats,
     message_ids : {None} \cup { Some(ids) : ids \in {<< >>, <<1>>, <<1, 2>>} },
     message_links :
        {None} \cup { Some(ls) : ls \in UNION { [1..n -> MessageLinks] :
                                                 n \in 0..MaxLinks } }]

\* Python's truth test of an Optional[List]: None and the empty list are
\* false.
TruthyList(opt) == opt \notin {None, Some(<< >>)}

\* The value of an Optional[List], with [] for None ("or []").
ListOf(opt) == IF opt = None THEN << >> ELSE CHOOSE l \in opt : TRUE

\* The source chat and the message ids when the loop of lines 81-98 ends;
\* rejected when it raises HTTPException(400).  chat is request.source_chat,
\* or the username of a link taken in its place.
RECURSIVE add_links(_, _, _)
add_links(chat, ids, links) ==
    IF links = << >> THEN [rejected |-> FALSE, source_chat |-> chat, message_ids |-> ids]
    ELSE LET parsed == validate_telegram_link(Head(links))
         IN  IF parsed = Invalid
             THEN [rejected |-> TRUE, source_chat |-> chat, message_ids |-> ids]
             ELSE IF chat.type = "str"
             THEN IF parsed.username # chat.name
                  THEN [rejected |-> TRUE, source_chat |-> chat, message_ids |-> ids]
                  ELSE add_links(chat, Append(ids, parsed.message_id), Tail(links))
             ELSE add_links(SourceUsername(FALSE, parsed.username),
                            Append(ids, parsed.message_id), Tail(links))

\* Outcomes of resolve_peer and of invoke(ForwardMessages(...)): the call
\* raises, or the result carries so many updates with an id.
InvokeOutcomes ==
    {[raised |-> TRUE, updates |-> 0]}
        \cup { [raised |-> FALSE, updates |-> n] : n \in 0..2 }

\* Lines 69-144 of forward_messages for a request: its outcome (see
\* ForwardOutcomes), the ForwardMessages request it sent, if any, and the ids
\* it returns.
forward_work(req, io) ==
    LET collected ==
            add_links(req.source_chat, ListOf(req.message_ids), ListOf(req.message_links))
        sent ==
            [from_peer |-> collected.source_chat,
             id |-> collected.message_ids,
             random_id |-> [i \in 1..Len(collected.message_ids) |-> "random"]]
        forwarded == [i \in 1..io.updates |-> 100 + i]
    IN  IF ~TruthyList(req.message_links) /\ ~TruthyList(req.message_ids)
        THEN [outcome |-> "rejected", sent |-> None, forwarded_message_ids |-> << >>]
        ELSE IF collected.rejected
        THEN [outcome |-> "rejected", sent |-> None, forwarded_message_ids |-> << >>]
        ELSE IF io.raised
        THEN [outcome |-> "raises", sent |-> Some(sent), forwarded_message_ids |-> << >>]
        ELSE IF forwarded = << >>
        THEN [outcome |-> "none_forwarded", sent |-> Some(sent),
              forwarded_message_ids |-> << >>]
        ELSE [outcome |-> "ok", sent |-> Some(sent), forwarded_message_ids |-> forwarded]

InitForward ==
    /\ last \in { Given("forward_work", req) : req \in ForwardRequests }
    /\ stored = MissingFile
    /\ sessions = load_sessions(stored)
    /\ clients = EmptyMap
    /\ connected = {}
    /\ awaiting2fa = {}
    /\ nextClient = 1
    /\ faults = 0
    /\ tasks = [t \in Tasks |-> Idle]
    /\ Message_chat_info = None

\* The work of the route for a request, between get_client and the finally
\* block.
ForwardWork ==
    /\ last.op = "given"
    /\ last.to = "forward_work"
    /\ \E io \in InvokeOutcomes :
          last' = [op |-> "forward_work", arg |-> last.arg, remote |-> io,
                   value |-> forward_work(last.arg, io)]
    /\ UNCHANGED <<sessions, clients, stored, connected, awaiting2fa, nextClient,
                   faults, tasks, Message_chat_info>>

NextForward ==
    \/ ForwardWork

SpecForward == InitForward /\ [][NextForward]_vars

\* ------------------------------------------------------------ type check

Records ==
    [session_string : {None} \cup { Some(SessionStringOf(p)) : p \in Phones },
     user_id : {None} \cup { Some(UserIdOf(p)) : p \in Phones }]

TypeOK ==
    /\ DOMAIN sessions \subseteq Phones
    /\ \A p \in DOMAIN sessions : sessions[p] \in Records
    /\ DOMAIN clients \subseteq Phones
    /\ \A p \in DOMAIN clients : clients[p] \in 1..MaxClients
    /\ connected \subseteq 1..MaxClients
    /\ awaiting2fa \subseteq 1..MaxClients
    /\ nextClient \in 1..(MaxClients + 1)
    /\ faults \in 0..MaxFaults
    /\ stored.kind \in {"ok", "missing", "malformed", "found"}
    /\ DOMAIN tasks = Tasks

\* ----------------------------------------------------- claims: vocabulary

\* A record is completed: session blob and user id both present.
Completed(rec) == rec.session_string # None /\ rec.user_id # None

\* The phone has a completed record in memory.
IsAuthenticated(p) == p \in DOMAIN sessions /\ Completed(sessions[p])

\* The record of the phone in memory is the one the sessions file holds.
Persisted(p) ==
    /\ p \in DOMAIN sessions
    /\ stored.kind = "ok"
    /\ p \in DOMAIN stored.data
    /\ stored.data[p] = sessions[p]

\* The phone has a live handle whose connection is open.
LiveAndConnected(p) == p \in DOMAIN clients /\ clients[p] \in connected

\* The handle the last operation found registered is gone: disconnected and
\* no longer the phone's entry in the live-handle map.
HandleTornDown ==
    /\ last.phone \notin DOMAIN clients
    /\ last.handle \cap connected = {}

\* The spellings of the phone the last operation was called for.
SpellingsOf(p) == { x \in RawPhones : Normalized[x] = p }

\* ------------------------------------------------------------------- C1

\* C1: when complete_auth runs for a phone with a live handle and the remote
\* signals that a password is required, the operation returns the outcome
\* 2fa_required as a result (it does not raise), the live client stays registered
\* and connected, and a following complete_2fa with the correct password
\* succeeds and leaves a completed record.
C1_PasswordNeededIsAResult ==
    (last.op = "complete_auth" /\ last.remote = "password_needed") =>
        /\ ~last.raised
        /\ last.value = "2fa_required"
        /\ LiveAndConnected(last.phone)
        /\ HandleOf(clients, last.phone) = last.handle
        /\ \A x \in SpellingsOf(last.phone) :
             LET r == complete_2fa(State, x, "ok", "ok", "ok")
             IN  /\ ~r.last.raised
                 /\ Completed(r.state.sessions[last.phone])

\* ------------------------------------------------------------------- C2

\* C2: when complete_auth runs with a code the remote accepts and no password
\* is required, a completed record is stored and persisted for the phone, the
\* live handle is torn down (disconnected and removed from the live-handle
\* map), and a following get_client for the phone succeeds with the persisted
\* session string.
C2_CodeAcceptedCompletesAndTearsDown ==
    (last.op = "complete_auth" /\ last.remote = "ok") =>
        /\ IsAuthenticated(last.phone)
        /\ Persisted(last.phone)
        /\ HandleTornDown
        /\ \A x \in SpellingsOf(last.phone) :
             LET r == get_client(State, x, "ok", "ok")
             IN  /\ ~r.last.raised
                 /\ r.last.session_arg = stored.data[last.phone].session_string

\* ------------------------------------------------------------------- C3

\* C3: when the remote rejects the code as invalid or expired, complete_auth
\* raises, the live client is disconnected and removed from the live-handle
\* map, and a following complete_auth for the phone fails with
\* NoActiveSession.
C3_InvalidCodeTearsDown ==
    (last.op = "complete_auth" /\ last.remote = "code_invalid") =>
        /\ last.raised
        /\ HandleTornDown
        /\ \A x \in SpellingsOf(last.phone), so \in SignInOutcomes :
             NoActiveSession(complete_auth(State, x, so, "ok", "ok").last)

\* ------------------------------------------------------------------- C4

\* C4: when the remote answers complete_auth with a flood-wait, the operation
\* raises RateLimited (429), an error distinct from the invalid-code and the
\* generic failure, the live client stays registered and connected, and a later
\* complete_auth on the same handle is possible without a new start_auth.
C4_FloodWaitIsRateLimitedAndKeepsHandle ==
    (last.op = "complete_auth" /\ last.remote = "flood_wait") =>
        /\ last.raised
        /\ last.status = 429
        /\ last.detail \notin {"phone_code_invalid", "failed_to_complete_authentication"}
        /\ LiveAndConnected(last.phone)
        /\ HandleOf(clients, last.phone) = last.handle
        /\ \A x \in SpellingsOf(last.phone), so \in SignInOutcomes :
             ~NoActiveSession(complete_auth(State, x, so, "ok", "ok").last)

\* ------------------------------------------------------------------- C5

\* C5: a start_auth that returns code_sent returns the remote's
\* phone_code_hash, has registered exactly the client it created as the phone's
\* live handle, and has stored and persisted a pending record for the phone.
C5_CodeSentRegistersAndPersistsPending ==
    (last.op = "start_auth" /\ last.value = "code_sent") =>
        /\ \E c \in 1..MaxClients :
             /\ last.created = {c}
             /\ last.hash = Some(PhoneCodeHashOf(c))
             /\ HandleOf(clients, last.phone) = Some(c)
             /\ c \in connected
        /\ last.phone \in DOMAIN sessions
        /\ sessions[last.phone] = PendingRecord
        /\ Persisted(last.phone)

\* ------------------------------------------------------------------- C6

\* C6: every start_auth for a phone whose record is completed returns
\* already_authorized without a hash, creates no client, makes no remote call,
\* and leaves the live-handle map, the record map and the sessions file
\* unchanged; so it does however often it is repeated.
C6_AlreadyAuthorizedShortCircuit ==
    [][ \A p \in Phones :
          (IsAuthenticated(p) /\ last'.op = "start_auth" /\ last'.phone = p) =>
              /\ ~last'.raised
              /\ last'.value = "already_authorized"
              /\ last'.hash = None
              /\ last'.created = {}
              /\ last'.calls = {}
              /\ UNCHANGED <<clients, sessions, stored, connected, nextClient>>
      ]_vars

\* A start_auth took the short-circuit for a phone with a completed record.
C6_Witness ==
    /\ last.op = "start_auth"
    /\ last.value = "already_authorized"
    /\ last.calls = {}
    /\ IsAuthenticated(last.phone)

\* ------------------------------------------------------------------- C7

\* C7: when start_auth fails after it created a client (the remote rejects the
\* phone number, or the code request raises), the error reaches the caller and
\* the client start_auth created is torn down: no connected client of that call
\* remains and the phone has no live handle.
C7_FailedStartTearsDownItsClient ==
    (last.op = "start_auth" /\ last.remote \in {"phone_invalid", "raises"}) =>
        /\ last.raised
        /\ last.created \cap connected = {}
        /\ last.phone \notin DOMAIN clients

\* ------------------------------------------------------------------- C8

\* C8: complete_auth and complete_2fa for a phone without live handle fail with
\* NoActiveSession, make no remote call, and leave the live-handle map, the
\* record map and the sessions file unchanged.
C8_NoHandleNoActiveSession ==
    [][ \A p \in Phones :
          (/\ p \notin DOMAIN clients
           /\ last'.op \in {"complete_auth", "complete_2fa"}
           /\ last'.phone = p) =>
              /\ NoActiveSession(last')
              /\ last'.calls = {}
              /\ last'.created = {}
              /\ UNCHANGED <<clients, sessions, stored, connected, nextClient>>
      ]_vars

\* A complete_auth was refused for a phone whose flow had begun (it has a
\* record) and whose handle is gone.
C8_Witness ==
    /\ last.op = "complete_auth"
    /\ NoActiveSession(last)
    /\ last.phone \in DOMAIN sessions
    /\ last.phone \notin DOMAIN clients

\* ------------------------------------------------------------------- C9

\* C9: complete_2fa reaches the remote password check only for a phone in
\* PendingPassword, that is, whose live handle answered the latest
\* complete_auth with a password request; for a phone whose live handle has not
\* (PendingCode) it is refused with NoActiveSession, and so a completed record is
\* never entered from PendingCode through complete_2fa.
C9_PasswordCheckOnlyInPendingPassword ==
    [][ \A p \in Phones :
          (/\ last'.op = "complete_2fa"
           /\ last'.phone = p
           /\ ~(p \in DOMAIN clients /\ clients[p] \in awaiting2fa)) =>
              /\ NoActiveSession(last')
              /\ "sign_in_password" \notin last'.calls
              /\ (p \in DOMAIN sessions' /\ Completed(sessions'[p]))
                    => IsAuthenticated(p)
      ]_vars

\* ------------------------------------------------------------------- C10

\* C10: after a complete_2fa that reached the remote returns, with any outcome
\* (success, rejection, rate limit), the phone has no live handle, so that a
\* second complete_2fa fails with NoActiveSession; on success the record of the
\* phone is completed and persisted, on failure the records are as they were.
C10_PasswordAttemptAlwaysTearsDown ==
    [][ \A p \in Phones :
          (/\ last'.op = "complete_2fa"
           /\ last'.phone = p
           /\ p \in DOMAIN clients) =>
              /\ p \notin DOMAIN clients'
              /\ clients[p] \notin connected'
              /\ last'.remote = "ok" =>
                    /\ ~last'.raised
                    /\ p \in DOMAIN sessions' /\ Completed(sessions'[p])
                    /\ stored'.kind = "ok"
                    /\ p \in DOMAIN stored'.data
                    /\ stored'.data[p] = sessions'[p]
              /\ last'.remote # "ok" =>
                    /\ last'.raised
                    /\ UNCHANGED <<sessions, stored>>
      ]_vars

\* ------------------------------------------------------------------ C11

\* C11: get_client for a phone that has no record, or a record without session
\* string, raises SessionNotFound (404), constructs no client, makes no remote
\* call, and leaves the live-handle map (the client of an auth flow in progress
\* for the phone included), the open connections and the record map unchanged.
C11_GetClientWithoutBlobIsNotFound ==
    [][ \A p \in Phones :
          (/\ ~(p \in DOMAIN sessions /\ sessions[p].session_string # None)
           /\ last'.op = "get_client"
           /\ last'.phone = p) =>
              /\ last'.raised
              /\ last'.status = 404
              /\ last'.detail = "session_not_found"
              /\ last'.created = {}
              /\ last'.calls = {}
              /\ UNCHANGED <<clients, sessions, stored, connected, nextClient>>
      ]_vars

\* A get_client was refused for a phone in an auth flow: its record is pending
\* and its auth client is still registered and connected.
C11_Witness ==
    /\ last.op = "get_client"
    /\ last.status = 404
    /\ last.phone \in DOMAIN sessions
    /\ sessions[last.phone] = PendingRecord
    /\ LiveAndConnected(last.phone)

\* ------------------------------------------------------------------ C12

\* C12: get_client for a phone with a completed record never reuses a handle:
\* the handle registered before the call is disconnected and no longer the
\* phone's entry; when the call returns, the client it returns is a new one,
\* built from the stored session string, connected, and registered as the
\* phone's live handle.  So two get_client calls in a row return two clients,
\* and the first is disconnected when the second call returns.
C12_GetClientIsAlwaysFresh ==
    [][ \A p \in Phones :
          (/\ IsAuthenticated(p)
           /\ last'.op = "get_client"
           /\ last'.phone = p) =>
              /\ \A old \in HandleOf(clients, p) :
                    /\ old \notin connected'
                    /\ HandleOf(clients', p) # Some(old)
              /\ ~last'.raised =>
                    \E c \in last'.created :
                        /\ c \notin connected
                        /\ HandleOf(clients, p) # Some(c)
                        /\ last'.session_arg = sessions[p].session_string
                        /\ c \in connected'
                        /\ HandleOf(clients', p) = Some(c)
      ]_vars

\* ------------------------------------------------------------------ C13

\* C13: remove_session for a phone without record raises SessionNotFound (404)
\* and changes nothing.  For a phone with a record, pending or completed, it
\* disconnects the phone's live handle and removes it from the live-handle
\* map, deletes the record from memory and from the sessions file, and
\* afterwards get_client for the phone raises SessionNotFound and complete_auth
\* raises NoActiveSession.
C13_RemoveSessionDeletesEverything ==
    [][ \A p \in Phones :
          (last'.op = "remove_session" /\ last'.phone = p) =>
              IF p \notin DOMAIN sessions
              THEN /\ last'.raised
                   /\ last'.status = 404
                   /\ UNCHANGED <<clients, sessions, stored, connected, nextClient>>
              ELSE /\ ~last'.raised
                   /\ p \notin DOMAIN clients'
                   /\ HandleOf(clients, p) \cap connected' = {}
                   /\ p \notin DOMAIN sessions'
                   /\ p \notin DOMAIN stored'.data
                   /\ \A x \in SpellingsOf(p) :
                        /\ get_client(
                             [sessions |-> sessions', clients |-> clients',
                              stored |-> stored', connected |-> connected',
                              awaiting2fa |-> awaiting2fa',
                              nextClient |-> nextClient'],
                             x, "ok", "ok").last.status = 404
                        /\ \A so \in SignInOutcomes :
                             NoActiveSession(complete_auth(
                               [sessions |-> sessions', clients |-> clients',
                                stored |-> stored', connected |-> connected',
                                awaiting2fa |-> awaiting2fa',
                                nextClient |-> nextClient'],
                               x, so, "ok", "ok").last)
      ]_vars

\* ------------------------------------------------------------------ C14

\* C14: in every reachable state list_sessions returns a list that holds
\* exactly one entry for each phone whose record has a session string and no
\* entry for a phone whose record is pending.
C14_ListSessionsShowsCompletedOnly ==
    LET r == list_sessions(sessions)
        entries(p) == { i \in 1..Len(r.value) : r.value[i].phone_number = p }
    IN  /\ ~r.raised
        /\ \A p \in Phones :
              Cardinality(entries(p)) =
                 IF p \in DOMAIN sessions /\ sessions[p].session_string # None
                 THEN 1 ELSE 0

\* ------------------------------------------------------------------ C17

\* C17: every record in memory, in every reachable state and so right after
\* loading the sessions file, is pending (no session string, no user id) or
\* completed (both present).
C17_RecordIsPendingOrCompleted ==
    \A p \in DOMAIN sessions :
        (sessions[p].session_string = None) <=> (sessions[p].user_id = None)

\* ------------------------------------------------------------------ C15

\* C15: a phone has at most one live handle, and a registered handle is never
\* overwritten by another client or dropped from the live-handle map while its
\* client is still connected: start_auth and get_client have disconnected and
\* removed the handle registered before them when they register a new one.
C15_HandleReplacedOnlyAfterDisconnect ==
    [][ \A p \in DOMAIN clients :
          (HandleOf(clients', p) # Some(clients[p])) =>
              clients[p] \notin connected'
      ]_vars

\* ------------------------------------------------------------------ C16

\* C16: whenever no request is in progress, a phone has a live handle only if
\* its record is pending (an auth flow is unfinished); a phone with a
\* completed record or without record has no live handle.
C16_HandleOnlyDuringAuthFlow ==
    \A p \in DOMAIN clients :
        p \in DOMAIN sessions /\ sessions[p] = PendingRecord

\* ------------------------------------------------------------------ C18

\* One leading '+' followed by decimal digits only.
Canonical(k) ==
    /\ Len(k) >= 2
    /\ k[1] = "+"
    /\ \A i \in 2..Len(k) : k[i] \in DecimalDigits

\* The digits of a phone number as the caller wrote it.
DigitsOf(x) == SelectSeq(x, LAMBDA ch : ch \in Digits)

\* Two spellings of one number: the same digits, and a leading '+' or none.
SameNumber(x, y) ==
    /\ DigitsOf(x) = DigitsOf(y)
    /\ \A z \in {x, y} : \A i \in 1..Len(z) :
          z[i] \in Digits \/ Separator(z[i]) \/ (i = 1 /\ z[i] = "+")

RecordOf(map, b) == IF b \in DOMAIN map THEN {map[b]} ELSE {}

\* C19: an operation for one phone, whatever its outcome, leaves every other
\* phone's live handle and its connection, its record in memory and its record
\* in the sessions file as they were; this for whole operations and for each
\* stretch of an operation between two awaits.
C19_OtherPhonesUntouched ==
    [][ \A b \in Phones :
          b # last'.phone =>
              /\ HandleOf(clients', b) = HandleOf(clients, b)
              /\ HandleOf(clients, b) \cap connected' = HandleOf(clients, b) \cap connected
              /\ RecordOf(sessions', b) = RecordOf(sessions, b)
              /\ RecordOf(stored'.data, b) = RecordOf(stored.data, b)
      ]_vars

\* ------------------------------------------------------------------ C20

\* C20: operations on one phone that overlap are neither queued nor refused.
\* Whenever a coroutine resumes from disconnect() in _cleanup_client while
\* another coroutine is suspended in sign_in on the very client that was
\* disconnected, the step goes through: that client's connection is closed, it
\* is no longer the phone's live handle, and the other coroutine is still
\* suspended on it.
C20_OverlapTearsDownHandleInUse ==
    [][ \A t \in Tasks : \A u \in Tasks \ {t} :
          (/\ tasks[t].pc = "sign_in"
           /\ tasks[u].pc \in {"cleanup_then_create", "cleanup_then_delete",
                               "cleanup_then_return"}
           /\ tasks[u].old = tasks[t].client
           /\ tasks'[u] # tasks[u]) =>
              /\ tasks[t].client \cap connected' = {}
              /\ HandleOf(clients', tasks[t].phone) # tasks[t].client
              /\ tasks'[t] = tasks[t]
      ]_vars

\* A complete_auth is suspended in sign_in on a client that a start_auth or a
\* get_client for the same phone, begun meanwhile, has disconnected and
\* removed from the live-handle map.
C20_Witness ==
    \E t \in Tasks : \E u \in Tasks \ {t} :
        /\ tasks[t].op = "complete_auth"
        /\ tasks[t].pc = "sign_in"
        /\ tasks[t].client \cap connected = {}
        /\ tasks[t].phone \notin DOMAIN clients
        /\ tasks[u].op \in {"start_auth", "get_client"}
        /\ tasks[u].phone = tasks[t].phone
        /\ tasks[u].pc = "create"

\* ------------------------------------------------------------------ C21

\* C21: when an operation changes the record map and the write of the sessions
\* file that follows fails (the file does not hold the new record map when the
\* operation ends), the operation raises an error instead of returning a
\* result, and the change of the record map is kept.
C21_WriteFailureIsReported ==
    [][ (/\ sessions' # sessions
         /\ stored' # FileOf(ValidEntries(sessions'))) =>
            /\ last'.raised
            /\ last'.op = "remove_session" => last'.phone \notin DOMAIN sessions'
            /\ last'.op # "remove_session" => last'.phone \in DOMAIN sessions'
      ]_vars

\* ------------------------------------------------------------------ C22

\* C22: every operation that changes the record map rewrites the whole
\* sessions file before it returns: in every reachable state, whichever
\* operation runs next and whatever the remote and disconnect() answer, if the
\* operation changes the record map and its write succeeds, the file then holds
\* exactly the phones and records of the record map (records that an earlier,
\* failed write left out included); and as long as no call has failed the file
\* and the record map hold the same phones and records.
C22_MutationsRewriteWholeStore ==
    /\ faults = 0 => stored.data = sessions
    /\ \A x \in RawPhones, d1 \in DisconnectOutcomes, d2 \in DisconnectOutcomes :
        LET synced(r) ==
                r.state.sessions # sessions =>
                    r.state.stored = FileOf(r.state.sessions)
        IN  /\ \A co \in CreateOutcomes, au \in AuthorizedOutcomes,
                  sc \in SendCodeOutcomes :
                  synced(start_auth(State, x, co, au, sc, d1, d2, "ok"))
            /\ \A so \in SignInOutcomes :
                  synced(complete_auth(State, x, so, d1, "ok"))
            /\ \A po \in PasswordOutcomes :
                  synced(complete_2fa(State, x, po, d1, "ok"))
            /\ synced(remove_session(State, x, d1, "ok"))

\* A remove_session has returned, another phone still has its record, and the
\* file holds what the record map holds.
C22_Witness ==
    /\ last.op = "remove_session"
    /\ ~last.raised
    /\ sessions # EmptyMap
    /\ stored = FileOf(sessions)

\* ------------------------------------------------------------------ C23

\* An entry of a file as found passes the validation of its key and its value.
EntryValid(e) == validate_phone(e.phone) # Invalid /\ StoredSessionValid(e.info)

DigitValue(ch) ==
    IF ch = ArabicIndicTwo THEN 2 ELSE CHOOSE d \in 0..9 : DigitChars[d + 1] = ch

\* The digits of a phone input, by value and in order.
DigitValuesOf(v) ==
    LET ds == SelectSeq(to_str(v), LAMBDA ch : ch \in DecimalDigits)
    IN  [i \in 1..Len(ds) |-> DigitValue(ds[i])]

\* The input writes a number: a non-negative integer, or a string of decimal
\* digits with separators and at most a '+' in front.
WritesNumber(v) ==
    IF v.type = "int" THEN v.value >= 0
    ELSE LET cleaned == SelectSeq(v.value, NotSeparator)
             body == IF cleaned # << >> /\ Head(cleaned) = "+"
                     THEN Tail(cleaned) ELSE cleaned
         IN  body # << >> /\ \A i \in 1..Len(body) : body[i] \in DecimalDigits

\* Two inputs write the same number: the same digits in the same order.
SameNumberWritten(v, w) ==
    WritesNumber(v) /\ WritesNumber(w) /\ DigitValuesOf(v) = DigitValuesOf(w)

\* C24: for every input validate_phone accepts, normalizing the output again
\* gives the output; the output is one '+' followed by digits only; and every
\* other way of writing the same number (digits only, with '+', with spaces or
\* hyphens, as an integer) gives the same output.
C24_NormalizationIsCanonical ==
    (last.op = "validate_phone" /\ ~last.raised) =>
        /\ validate_phone(last.value) = last.value
        /\ Canonical(last.value)
        /\ \A w \in PhoneInputs :
              SameNumberWritten(last.arg, w) => validate_phone_value(w) = last.value

\* ------------------------------------------------------------------ C25

\* Exactly five decimal digits.
FiveDecimalDigits(chars) ==
    Len(chars) = 5 /\ \A i \in 1..5 : chars[i] \in DecimalDigits

\* C25: validate_code accepts a code exactly when the code, converted to a
\* string and stripped of surrounding whitespace, consists of exactly five
\* decimal digits; the value it returns is that string, and so a code, the same
\* code as an integer and the same code with whitespace around it give the
\* same value.
C25_CodeIsFiveDigits ==
    (last.op = "validate_code") =>
        LET code_str == strip(to_str(last.arg))
        IN  /\ ~last.raised <=> FiveDecimalDigits(code_str)
            /\ ~last.raised => last.value = code_str
            /\ \A w \in CodeInputs :
                  strip(to_str(w)) = code_str => validate_code(w) = last.value

\* ------------------------------------------------------------------ C26

\* The chat has a username: a string that is not empty.
HasUsername(chat) == \E u \in chat.username : Len(u) > 0

\* The chat has a chat id: an integer that is not 0.
HasChatId(chat) == \E c \in chat.chat_id : c # 0

\* The value of an optional field that is present.
The(opt) == CHOOSE v \in opt : TRUE

\* The decimal digits of |n|.
Unsigned(n) == IF n < 0 THEN Tail(str_int(n)) ELSE str_int(n)

\* C26: the link of a chat with a username is https://t.me/{username},
\* whatever its type; without username, the link of a channel is
\* https://t.me/c/ followed by the absolute value of the chat id, that of a
\* private chat tg://user?id={chat_id}, that of a group tg://chat?id={chat_id};
\* a chat with neither username nor chat id has the empty link.
C26_ChatLinkRules ==
    (last.op = "generate_chat_link") =>
        LET chat == last.arg
        IN  CASE HasUsername(chat) ->
                   last.value = <<"https://t.me/">> \o The(chat.username)
              [] ~HasUsername(chat) /\ ~HasChatId(chat) ->
                   last.value = << >>
              [] ~HasUsername(chat) /\ HasChatId(chat) /\ chat.type = "channel" ->
                   last.value = <<"https://t.me/c/">> \o Unsigned(The(chat.chat_id))
              [] ~HasUsername(chat) /\ HasChatId(chat) /\ chat.type = "private" ->
                   last.value = <<"tg://user?id=">> \o str_int(The(chat.chat_id))
              [] ~HasUsername(chat) /\ HasChatId(chat) /\ chat.type = "group" ->
                   last.value = <<"tg://chat?id=">> \o str_int(The(chat.chat_id))

\* The link of a channel without username and with a negative chat id was
\* generated: it carries the id without its sign.
C26_Witness ==
    /\ last.op = "generate_chat_link"
    /\ last.arg.type = "channel"
    /\ last.arg.username = None
    /\ \E c \in last.arg.chat_id : c < 0
    /\ last.value[1] = "https://t.me/c/"
    /\ "-" \notin { last.value[i] : i \in 1..Len(last.value) }

\* ------------------------------------------------------------------ C27

\* C27: the link of a message that has an id (message ids are not 0) follows
\* from the chat it belongs to.  With a chat username it is
\* https://t.me/{username}/{message_id}, whatever the chat type; without
\* username, in a channel it is https://t.me/c/ followed by the absolute value
\* of the chat id and /{message_id}, in a private chat and in a group it is
\* tg://openmessage?chat_id={chat_id}&message_id={message_id}; with no chat
\* information, or with neither username nor chat id, there is no link.
C27_MessageLinkRules ==
    (last.op = "generate_message_link" /\ last.arg.message_id # 0) =>
        LET id == str_int(last.arg.message_id)
            info == last.arg.chat_info
            chat == The(info)
        IN  CASE info = None -> last.value = NoLink
              [] info # None /\ HasUsername(chat) ->
                   last.value = <<"https://t.me/">> \o The(chat.username) \o <<"/">> \o id
              [] info # None /\ ~HasUsername(chat) /\ ~HasChatId(chat) ->
                   last.value = NoLink
              [] info # None /\ ~HasUsername(chat) /\ HasChatId(chat)
                    /\ chat.type = "channel" ->
                   last.value = <<"https://t.me/c/">> \o Unsigned(The(chat.chat_id))
                                    \o <<"/">> \o id
              [] info # None /\ ~HasUsername(chat) /\ HasChatId(chat)
                    /\ chat.type \in {"private", "group"} ->
                   last.value = <<"tg://openmessage?chat_id=">>
                                    \o str_int(The(chat.chat_id))
                                    \o <<"&message_id=">> \o id

\* The link of a message in a group that has a username was generated: it is
\* the username link, not the openmessage link of groups.
C27_Witness ==
    /\ last.op = "generate_message_link"
    /\ last.arg.message_id # 0
    /\ last.arg.chat_info # None
    /\ The(last.arg.chat_info).type = "group"
    /\ HasUsername(The(last.arg.chat_info))
    /\ HasChatId(The(last.arg.chat_info))
    /\ last.value[1] = "https://t.me/"

\* ------------------------------------------------------------------ C28

\* C28: a forward request whose batched forward completes without any new
\* message id is answered with NotFound (404), not with success and not with
\* another error; one that yields at least one id is answered with success.
C28_NoneForwardedIsNotFound ==
    (last.op = "forward_messages") =>
        /\ last.remote = "none_forwarded" => (last.raised /\ last.status = 404)
        /\ last.remote = "ok" => (~last.raised /\ last.value = "success")

\* ------------------------------------------------------------------ C29

\* The chats of the remote: each has an id and a username.
ChatNamed(source) ==
    IF source.type = "str" THEN source.name
    ELSE IF source.id = 5 THEN "a" ELSE "b"

\* C29: when a forward request with message links is accepted (a forward
\* request is sent to the remote), every link parses and names the chat the
\* request gives as source_chat; the ids sent are the request's message_ids
\* followed by the ids of the links in order, in one request, with one random
\* id for each message; and a request that is rejected sends nothing.
C29_LinksNameTheSourceChat ==
    (last.op = "forward_work") =>
        LET req == last.arg
            links == ListOf(req.message_links)
            parsed(i) == validate_telegram_link(links[i])
        IN  /\ last.value.outcome = "rejected" <=> last.value.sent = None
            /\ (links # << >> /\ last.value.sent # None) =>
                 LET sent == The(last.value.sent)
                 IN  /\ \A i \in 1..Len(links) :
                           /\ parsed(i) # Invalid
                           /\ parsed(i).username = ChatNamed(req.source_chat)
                     /\ ChatNamed(sent.from_peer) = ChatNamed(req.source_chat)
                     /\ sent.id = ListOf(req.message_ids)
                                    \o [i \in 1..Len(links) |-> parsed(i).message_id]
                     /\ Len(sent.random_id) = Len(sent.id)

\* ------------------------------------------------------------------ C30

\* C30: when a forward request that obtained a client from get_client has
\* ended, with whatever outcome (success, rejected request, remote failure, no
\* message forwarded), the source phone has no live handle and the client
\* get_client created is disconnected.
C30_ForwardTearsDownItsClient ==
    (last.op = "forward_messages" /\ last.remote \in ForwardOutcomes) =>
        /\ last.phone \notin DOMAIN clients
        /\ last.created # {}
        /\ last.created \cap connected = {}

\* ------------------------------------------ the routes of routes/auth.py

\* The code the remote sent for a code request, and the values a caller passes
\* as code: that code as a string and as a number, and a string validate_code
\* rejects.
SentCode == <<"1", "1", "1", "1", "1">>

VerifyCodes == {StrValue(SentCode), IntValue(11111), StrValue(<<"1", "a">>)}

\* The values a caller passes as phone_code_hash: the hashes the remote gave
\* out, and 0 for a string the field's pattern and validate_hash reject.
VerifyHashes == 0..MaxClients

\* CodeVerification(**body) validates: every field validator returns.
CodeVerificationValid(x, code, hash) ==
    /\ Normalized[x] # Invalid
    /\ validate_code(code) # Invalid
    /\ hash > 0

\* A request whose body fails validation: FastAPI answers 422 and the route
\* function is not called.
Unprocessable(op) ==
    [op |-> op, phone |-> Invalid, raised |-> TRUE, value |-> "",
     status |-> 422, detail |-> "request_validation_error", hash |-> None,
     calls |-> {}, created |-> {}, session_arg |-> None, remote |-> "",
     handle |-> None]

\* POST /api/accounts/verify-code: line 83 looks up session_manager.verify_code,
\* an attribute the SessionManager object does not have; the AttributeError is
\* caught at line 119 and raised again as HTTPException 500.  The report
\* carries the code and the hash of the request.
verify_code_route(s, x, code, hash) ==
    LET p == Normalized[x]
    IN  IF ~CodeVerificationValid(x, code, hash)
        THEN [state |-> s, last |-> Unprocessable("verify_code_route")]
        ELSE [state |-> s,
              last |-> [code |-> validate_code(code)] @@
                       [Raised("verify_code_route", p, 500,
                               "unexpected_authentication_error", {}, {}, None,
                               "attribute_error")
                          EXCEPT !.hash = Some(hash)]]

\* POST /api/accounts/verify-password: line 132 looks up
\* session_manager.verify_password, which does not exist either; the
\* AttributeError is caught at line 142 and raised again as HTTPException 400.
verify_password_route(s, x) ==
    LET p == Normalized[x]
    IN  IF p = Invalid
        THEN [state |-> s, last |-> Unprocessable("verify_password_route")]
        ELSE [state |-> s,
              last |-> Raised("verify_password_route", p, 400, "attribute_error",
                              {}, {}, None, "attribute_error")]

VerifyCodeRoute ==
    \E x \in RawPhones : \E code \in VerifyCodes : \E hash \in VerifyHashes :
        LET r == verify_code_route(State, x, code, hash)
        IN  Becomes(r.state, r.last, 0)

VerifyPasswordRoute ==
    \E x \in RawPhones :
        LET r == verify_password_route(State, x)
        IN  Becomes(r.state, r.last, 0)

\* ---------------------------------- the session look-up of routes/search.py

\* The key under which _save_sessions writes the record map: line 126 dumps
\* StoredSessions, an object whose one field is "sessions".
SessionsKey == <<"s", "e", "s", "s", "i", "o", "n", "s">>

\* The entries of a file as found, as a map from the keys as written.
RECURSIVE entries_map(_)
entries_map(entries) ==
    IF entries = << >> THEN EmptyMap
    ELSE Put(entries_map(SubSeq(entries, 1, Len(entries) - 1)),
             entries[Len(entries)].phone, entries[Len(entries)].info)

\* app/auth.py load_sessions_info: the object json.loads returns for the
\* sessions file, taken to be the file the Session Manager writes.  A file
\* written by _save_sessions has the one key "sessions"; a file as found holds
\* its entries at the top; a missing or unreadable file gives {}.
load_sessions_info(file) ==
    CASE file.kind = "ok" -> [k \in {SessionsKey} |-> file.data]
      [] file.kind = "found" -> entries_map(file.data)
      [] OTHER -> EmptyMap

\* Outcomes of client.connect() on the client the search builds.
SearchConnectOutcomes == {"ok", "connect_raises"}

\* routes/search.py search_contacts and search_chats up to the point where
\* telegram_client yields: the phone is validated (lines 52, 136), looked up
\* in load_sessions_info() (lines 20-26), and a client is built from the
\* session string found (line 30) and connected (line 31).
search_client(s, x, co) ==
    LET p == Normalized[x]
        found == load_sessions_info(s.stored)
    IN  IF p = Invalid
        THEN [state |-> s,
              last |-> Raised("search", p, 400, "validation_error",
                              {}, {}, None, "")]
        ELSE IF p \notin DOMAIN found
        THEN [state |-> s,
              last |-> Raised("search", p, 404, "session_not_found",
                              {}, {}, None, "")]
        ELSE IF co = "ok"
        THEN [state |-> s,
              last |-> Returned("search", p, "client", None,
                                {"connect", "disconnect"}, {},
                                found[p].session_string, co)]
        ELSE [state |-> s,
              last |-> Raised("search", p, 400, "search_failed",
                              {"connect", "disconnect"}, {},
                              found[p].session_string, co)]

Search ==
    \E x \in RawPhones :
      \E co \in Among(Normalized[x] \in DOMAIN load_sessions_info(stored),
                      SearchConnectOutcomes) :
          LET r == search_client(State, x, co)
          IN  Becomes(r.state, r.last, 0)

\* The requests of the HTTP interface as the routes are written, one at a
\* time: start and delete reach start_auth and remove_session, the forward
\* route reaches get_client, the two verify routes reach no operation, and
\* the searches (below) read the sessions file themselves.
NextHttp ==
    \/ StartAuth
    \/ VerifyCodeRoute
    \/ VerifyPasswordRoute
    \/ ForwardMessages
    \/ Search
    \/ RemoveSession

SpecHttp == Init /\ [][NextHttp]_vars

\* ------------------------------------------------------------------ C31

\* C31: over HTTP the auth flow can be completed.  A verify-code request for a
\* phone whose code was sent (pending record, live handle), carrying the code
\* the remote sent and the hash start returned, is answered success or
\* 2fa_required; a verify-password request for a phone whose sign-in asked for
\* the password is answered success; and after an answer success the phone has
\* a completed record.
C31_AuthFlowCompletesOverHttp ==
    [][ /\ ( /\ last'.op = "verify_code_route"
             /\ last'.phone \in DOMAIN clients
             /\ last'.phone \in DOMAIN sessions
             /\ sessions[last'.phone] = PendingRecord
             /\ last'.status # 422
             /\ last'.code = SentCode
             /\ last'.hash = Some(PhoneCodeHashOf(clients[last'.phone])) )
            => ( /\ ~last'.raised
                 /\ last'.value \in {"success", "2fa_required"} )
        /\ ( /\ last'.op = "verify_password_route"
             /\ last'.phone \in DOMAIN clients
             /\ clients[last'.phone] \in awaiting2fa )
            => ( ~last'.raised /\ last'.value = "success" )
        /\ ( /\ last'.op \in {"verify_code_route", "verify_password_route"}
             /\ ~last'.raised /\ last'.value = "success" )
            => ( /\ last'.phone \in DOMAIN sessions'
                 /\ Completed(sessions'[last'.phone]) )
      ]_vars

\* ------------------------------------------------------------------ C32

\* C32: the searches work on the sessions the Session Manager owns.  A search
\* for a phone whose completed record the manager holds and has written to the
\* sessions file does not fail with SessionNotFound and builds its client from
\* the blob of that record; a search for a phone without completed record
\* fails with SessionNotFound.
C32_SearchUsesManagerSessions ==
    (last.op = "search" /\ last.phone # Invalid) =>
        IF IsAuthenticated(last.phone) /\ Persisted(last.phone)
        THEN /\ ~(last.raised /\ last.status = 404)
             /\ last.session_arg = sessions[last.phone].session_string
        ELSE IF ~IsAuthenticated(last.phone)
        THEN last.raised /\ last.status = 404
        ELSE TRUE

\* ------------------------------------------------------------------ C33

\* The operations of the Session Manager that take a phone number.
PhoneOperations ==
    {"start_auth", "complete_auth", "complete_2fa", "get_client", "remove_session"}

\* C33: an operation of the manager called with a phone number that fails
\* normalization raises, has made no remote call and constructed no client,
\* and leaves the live-handle map, the record map, the sessions file and the
\* open connections as they were.
C33_InvalidPhoneRejectedFirst ==
    [][ (last'.op \in PhoneOperations /\ last'.phone = Invalid) =>
            /\ last'.raised
            /\ last'.calls = {}
            /\ last'.created = {}
            /\ clients' = clients
            /\ sessions' = sessions
            /\ stored' = stored
            /\ connected' = connected
            /\ nextClient' = nextClient
      ]_vars

\* An operation was rejected for its phone number while the manager held a
\* record, a live handle and a sessions file.
C33_Witness ==
    /\ last.op \in PhoneOperations
    /\ last.phone = Invalid
    /\ last.raised
    /\ clients # EmptyMap
    /\ sessions # EmptyMap
    /\ stored.kind = "ok"

\* ------------------------------------------ the loop of search_chats

\* Number of messages of a search result.
MaxMessages == 2

\* Largest value of the parameter limit.
MaxLimit == 2

\* The entities a search result lists: channels (broadcast), supergroups
\* (megagroup) and basic groups in results.chats, users in results.users.
\* Channels and supergroups, basic groups, and users are numbered apart: one
\* number may name a channel, a basic group and a user.
Entity(kind, id, username) == [kind |-> kind, id |-> id, username |-> username]

ChatEntities ==
    { Entity("broadcast", 5, Some(<<"u">>)), Entity("megagroup", 6, None),
      Entity("chat", 5, None) }

UserEntities == { Entity("user", 5, None), Entity("user", 6, Some(<<"n">>)) }

\* message.peer_id: PeerChannel(channel_id), PeerChat(chat_id) or
\* PeerUser(user_id).
Peer(kind, id) == [kind |-> kind, id |-> id]

Peers == { Peer(kind, id) : kind \in {"channel", "chat", "user"}, id \in {5, 6} }

\* The kind of peer that names an entity.
PeerKindOf(e) ==
    CASE e.kind \in {"broadcast", "megagroup"} -> "channel"
      [] e.kind = "chat" -> "chat"
      [] OTHER -> "user"

\* The entities of the results that are the chat the peer names.
OwningChats(results, peer) ==
    { e \in { results.chats[i] : i \in 1..Len(results.chats) }
              \cup { results.users[i] : i \in 1..Len(results.users) } :
        PeerKindOf(e) = peer.kind /\ e.id = peer.id }

\* The lists without repetition of at most n elements of a set.
ListsOf(S, n) ==
    { l \in UNION { [1..k -> S] : k \in 0..n } :
        \A i \in 1..Len(l) : \A j \in 1..Len(l) : i # j => l[i] # l[j] }

\* What SearchGlobal returns: the messages, each in the chat its peer names
\* (the message at place i has id i), and the chats and users, those of the
\* messages among them.
SearchResults ==
    { r \in [messages : UNION { [1..k -> Peers] : k \in 0..MaxMessages },
             chats : ListsOf(ChatEntities, 2),
             users : ListsOf(UserEntities, 2)] :
        \A m \in 1..Len(r.messages) : OwningChats(r, r.messages[m]) # {} }

\* The parameter chat_type: omitted (None), or one of the four words the
\* pattern of line 130 admits.
ChatTypeParams == {None} \cup { Some(w) : w \in ChatTypes \cup {"all"} }

\* Lines 188-197: the type of the chat an entity is.
chat_type_actual(e) ==
    CASE e.kind = "broadcast" -> "channel"
      [] e.kind = "megagroup" -> "group"
      [] e.kind = "user" -> "private"
      [] OTHER -> "group"

\* Line 181: the number of the peer, whichever kind of peer it is.
peer_chat_id(peer) == peer.id

\* Lines 184-209: the first entity of results.chats + results.users whose id
\* is the number of the message's peer, entities that are not private being
\* skipped when chat_type is private; None when there is none.
RECURSIVE find_chat(_, _, _)
find_chat(entities, chat_id, chat_type) ==
    IF entities = << >> THEN None
    ELSE LET e == Head(entities)
         IN  IF e.id = chat_id
                /\ ~(chat_type = Some("private") /\ chat_type_actual(e) # "private")
             THEN Some(e)
             ELSE find_chat(Tail(entities), chat_id, chat_type)

\* Lines 203-207: the chat_info built from the entity found.
chat_info_of(found) ==
    IF found = None THEN None
    ELSE LET e == CHOOSE c \in found : TRUE
         IN  Some([chat_id |-> Some(e.id), username |-> e.username,
                   type |-> chat_type_actual(e)])

\* Line 214: the message is kept.
passes_filter(chat_info, chat_type) ==
    /\ chat_info # None
    /\ \/ chat_type = Some("all")
       \/ Some((CHOOSE c \in chat_info : TRUE).type) = chat_type

\* The place of the chat with the given id in the dict chats, 0 if absent.
place_of(chats, chat_id) ==
    IF \E i \in 1..Len(chats) : chats[i].chat_id = chat_id
    THEN CHOOSE i \in 1..Len(chats) : chats[i].chat_id = chat_id
    ELSE 0

\* Lines 216-248: Message(...) is built, its link generated from the class
\* attribute Message._chat_info (held in g), and it is put under its chat: a
\* new Chat when the id is not yet in chats, the existing one otherwise.
add_message(chats, message_id, chat_id, chat_info, g) ==
    LET info == CHOOSE c \in chat_info : TRUE
        message_obj == [message_id |-> message_id,
                        link |-> generate_message_link(message_id, g)]
        at == place_of(chats, chat_id)
    IN  IF at = 0
        THEN Append(chats,
                    [chat_id |-> chat_id, type |-> info.type,
                     username |-> info.username,
                     matching_messages |-> <<message_obj>>,
                     link |-> generate_chat_link([chat_id |-> Some(chat_id),
                                                  type |-> info.type,
                                                  username |-> info.username])])
        ELSE [chats EXCEPT ![at].matching_messages = Append(@, message_obj)]

\* Whether the coroutine is suspended between line 212, where
\* Message._chat_info is set, and line 216, where Message(...) reads it: there
\* is no await between lines 173 and 250.
suspended_after_set_always == TRUE

suspended_after_set == FALSE

\* A search_chats call in progress: its parameters, the results of SearchGlobal,
\* the message the loop of line 175 is at, the local chat_info, and chats.
SearchTask(chat_type, limit, results) ==
    [op |-> "search_chats", pc |-> "loop", chat_type |-> chat_type,
     limit |-> limit, results |-> results, at |-> 1, chat_info |-> None,
     chats |-> << >>]

\* Lines 175-250 from where the task stands until the loop ends or the
\* coroutine is suspended: g is Message._chat_info.  The result is the task
\* and the value of Message._chat_info then.
RECURSIVE search_loop(_, _)
search_loop(g, tk) ==
    IF tk.pc = "loop"
    THEN IF tk.at > Len(tk.results.messages) \/ Len(tk.chats) >= tk.limit
         THEN [task |-> [tk EXCEPT !.pc = "done"], g |-> g]
         ELSE LET chat_id == peer_chat_id(tk.results.messages[tk.at])
                  chat_info ==
                      chat_info_of(find_chat(tk.results.chats \o tk.results.users,
                                             chat_id, tk.chat_type))
                  set == [tk EXCEPT !.pc = "set", !.chat_info = chat_info]
              IN  IF suspended_after_set
                  THEN [task |-> set, g |-> chat_info]
                  ELSE search_loop(chat_info, set)
    ELSE LET chat_id == peer_chat_id(tk.results.messages[tk.at])
             chats == IF passes_filter(tk.chat_info, tk.chat_type)
                      THEN add_message(tk.chats, tk.at, chat_id, tk.chat_info, g)
                      ELSE tk.chats
         IN  search_loop(None,
                         [tk EXCEPT !.pc = "loop", !.at = @ + 1,
                                    !.chat_info = None, !.chats = chats])

\* The chats search_chats returns for the results of SearchGlobal.
search_chats(chat_type, limit, results) ==
    search_loop(None, SearchTask(chat_type, limit, results)).task.chats

\* The calls of search_chats of the model.
SearchInputs ==
    [chat_type : ChatTypeParams, limit : 1..MaxLimit, results : SearchResults]

InitSearch ==
    /\ last \in { Given("search_chats", v) : v \in SearchInputs }
    /\ stored = MissingFile
    /\ sessions = load_sessions(stored)
    /\ clients = EmptyMap
    /\ connected = {}
    /\ awaiting2fa = {}
    /\ nextClient = 1
    /\ faults = 0
    /\ tasks = [t \in Tasks |-> Idle]
    /\ Message_chat_info = None

\* GET /api/search/chats, from the results of SearchGlobal to the response.
SearchChats ==
    /\ last.op = "given"
    /\ last.to = "search_chats"
    /\ last' = Generated("search_chats", last.arg,
                         search_chats(last.arg.chat_type, last.arg.limit,
                                      last.arg.results))
    /\ UNCHANGED <<sessions, clients, stored, connected, awaiting2fa, nextClient,
                   faults, tasks, Message_chat_info>>

NextSearch == SearchChats

SpecSearch == InitSearch /\ [][NextSearch]_vars

\* ------------------------------------------------------------------ C34

\* The places (chat, message) at which the message with the given id is
\* listed in the chats of a response.
ListedAt(chats, message_id) ==
    { <<i, j>> \in (1..Len(chats)) \X (1..MaxMessages + 1) :
        /\ j <= Len(chats[i].matching_messages)
        /\ chats[i].matching_messages[j].message_id = message_id }

\* C34: the response of a chat search lists no chat id twice, lists at most
\* limit chats, lists each message once at most and under the chat its peer
\* names (that chat's id, type and username), and, when a chat_type other than
\* all is given, lists chats of that type only.
C34_ChatSearchResult ==
    (last.op = "search_chats") =>
        LET chats == last.value
            req == last.arg
        IN  /\ \A i \in 1..Len(chats) : \A j \in 1..Len(chats) :
                    i # j => chats[i].chat_id # chats[j].chat_id
            /\ Len(chats) <= req.limit
            /\ \A m \in 1..Len(req.results.messages) :
                 /\ Cardinality(ListedAt(chats, m)) <= 1
                 /\ \A at \in ListedAt(chats, m) :
                      \E e \in OwningChats(req.results, req.results.messages[m]) :
                          /\ chats[at[1]].chat_id = e.id
                          /\ chats[at[1]].type = chat_type_actual(e)
                          /\ chats[at[1]].username = e.username
            /\ \A i \in 1..Len(chats) :
                    /\ chats[i].matching_messages # << >>
                    /\ \A w \in ChatTypes :
                          req.chat_type = Some(w) => chats[i].type = w

\* ------------------------------------------------------------------ C39

\* C39: a chat search without the parameter chat_type returns the chats and
\* messages the same search returns with chat_type all.
C39_OmittedChatTypeIsAll ==
    (last.op = "search_chats" /\ last.arg.chat_type = None) =>
        last.value = search_chats(Some("all"), last.arg.limit, last.arg.results)

\* ------------------------------------------------------------------ C35

\* C35: when an operation of the manager has returned or raised, every client
\* whose connection is open is the live handle of some phone; a client that
\* start_auth created is then the live handle of its phone or disconnected.
C35_NoOrphanedConnection ==
    /\ connected \subseteq { clients[p] : p \in DOMAIN clients }
    /\ (last.op = "start_auth") =>
          \A c \in last.created :
              \/ HandleOf(clients, last.phone) = Some(c)
              \/ c \notin connected

\* ------------------------------------------------------------------ C36

\* C36: with operations taken one at a time, a phone whose record is completed
\* keeps a completed record through every start_auth, complete_auth,
\* complete_2fa and get_client, whatever their outcome; only a remove_session
\* of that phone that returned ends it, by deleting the record.
C36_CompletedStaysCompleted ==
    [][ \A p \in DOMAIN sessions :
          Completed(sessions[p]) =>
              \/ /\ p \in DOMAIN sessions'
                 /\ Completed(sessions'[p])
              \/ /\ last'.op = "remove_session"
                 /\ last'.phone = p
                 /\ ~last'.raised
                 /\ p \notin DOMAIN sessions'
      ]_vars

\* A sign-in attempt failed on the live handle of a phone whose record was
\* completed, and the record is completed still.
C36_Witness ==
    /\ last.op \in {"complete_auth", "complete_2fa"}
    /\ last.raised
    /\ last.calls # {}
    /\ IsAuthenticated(last.phone)

\* ------------------------------------------------ operations and restarts

\* The operations of the manager, one at a time, in a process that may end
\* and be started again on the sessions file it left.
NextRestart ==
    \/ StartAuth
    \/ CompleteAuth
    \/ Complete2fa
    \/ GetClient
    \/ RemoveSession
    \/ Restart

SpecRestart == Init /\ [][NextRestart]_vars

\* ------------------------------------------------------------------ C37

\* C37: a restart of the process keeps the record map as it was, pending
\* records included, and starts without live handles; in the new process
\* get_client finds the session of a phone that was authenticated, and
\* complete_auth and complete_2fa answer NoActiveSession for a phone whose
\* record is pending.
C37_RestartPreservesRecords ==
    [][ /\ (last'.op = "init") =>
              /\ sessions' = sessions
              /\ clients' = EmptyMap
        /\ (last.op = "init" /\ last'.op = "get_client"
               /\ IsAuthenticated(last'.phone)) =>
              ~(last'.raised /\ last'.status = 404)
        /\ (last.op = "init" /\ last'.op \in {"complete_auth", "complete_2fa"}
               /\ last'.phone \in DOMAIN sessions
               /\ sessions[last'.phone] = PendingRecord) =>
              NoActiveSession(last')
      ]_vars

\* ------------------------------------------- chat searches, await by await

\* search_chats as the event loop runs it: the coroutine is suspended at
\* await client.invoke(...) (lines 144, 159) and, once the response is built,
\* at the disconnect of telegram_client (line 39); any other coroutine may run
\* in between.

\* The results of SearchGlobal in the searches that overlap: messages of two
\* channels and two users.
OverlapResults ==
    [messages : UNION { [1..k -> { Peer(kind, id) : kind \in {"channel", "user"},
                                                    id \in {5, 6} }] :
                          k \in 1..MaxMessages },
     chats : { <<Entity("broadcast", 5, Some(<<"u">>)), Entity("megagroup", 6, None)>> },
     users : { <<Entity("user", 5, None), Entity("user", 6, Some(<<"n">>))>> }]

\* No search is in progress and no sessions file exists.
InitSearchTasks == Init /\ stored = MissingFile

\* A request arrives: search_chats runs up to await client.invoke(...).
SearchBegin ==
    \E t \in Tasks : \E chat_type \in ChatTypeParams : \E limit \in 1..MaxLimit :
        /\ tasks[t] = Idle
        /\ tasks' = [tasks EXCEPT
                       ![t] = [SearchTask(chat_type, limit,
                                          [messages |-> << >>, chats |-> << >>,
                                           users |-> << >>])
                                 EXCEPT !.pc = "invoke"]]
        /\ UNCHANGED <<sessions, clients, stored, connected, awaiting2fa,
                       nextClient, faults, last, Message_chat_info>>

\* The coroutine resumes: with the results of SearchGlobal when it awaited
\* client.invoke, and where it stood when it was suspended in the loop.  It
\* runs until it is suspended again or the response is built.
SearchResume ==
    \E t \in Tasks :
        /\ tasks[t].pc \in {"invoke", "set"}
        /\ \E results \in IF tasks[t].pc = "invoke" THEN OverlapResults
                          ELSE {tasks[t].results} :
             LET tk == IF tasks[t].pc = "invoke"
                       THEN [tasks[t] EXCEPT !.pc = "loop", !.results = results]
                       ELSE tasks[t]
                 r == search_loop(Message_chat_info, tk)
             IN  /\ tasks' = [tasks EXCEPT ![t] = r.task]
                 /\ Message_chat_info' = r.g
        /\ UNCHANGED <<sessions, clients, stored, connected, awaiting2fa,
                       nextClient, faults, last>>

\* The client is disconnected and the response sent.
SearchEnd ==
    \E t \in Tasks :
        /\ tasks[t].pc = "done"
        /\ tasks' = [tasks EXCEPT ![t] = Idle]
        /\ UNCHANGED <<sessions, clients, stored, connected, awaiting2fa,
                       nextClient, faults, last, Message_chat_info>>

NextSearchTasks ==
    \/ SearchBegin
    \/ SearchResume
    \/ SearchEnd

SpecSearchTasks == InitSearchTasks /\ [][NextSearchTasks]_vars

\* ------------------------------------------------------------------ C38

\* The chat_info of a chat of a response: what line 203 built for it.
ChatInfoOf(chat) ==
    Some([chat_id |-> Some(chat.chat_id), username |-> chat.username,
          type |-> chat.type])

\* C38: in every response of a chat search, with other chat searches in
\* progress at their awaits, the link of each message is the link generated
\* from the chat the message is listed under in that response.
C38_SearchesDoNotShareChatInfo ==
    \A t \in Tasks :
        (tasks[t].op = "search_chats" /\ tasks[t].pc = "done") =>
            \A i \in 1..Len(tasks[t].chats) :
                LET chat == tasks[t].chats[i]
                IN  \A j \in 1..Len(chat.matching_messages) :
                        chat.matching_messages[j].link =
                            generate_message_link(chat.matching_messages[j].message_id,
                                                  ChatInfoOf(chat))

\* Two searches that were in progress together have both built a response,
\* for different chats, with a message link each.
C38_Witness ==
    /\ \A t \in Tasks :
          /\ tasks[t].op = "search_chats"
          /\ tasks[t].pc = "done"
          /\ tasks[t].chats # << >>
          /\ tasks[t].chats[1].matching_messages[1].link # NoLink
    /\ tasks["a"].chats[1].chat_id # tasks["b"].chats[1].chat_id
    /\ tasks["a"].chats[1].type # tasks["b"].chats[1].type

\* ------------------------------------------------------------------ C40

\* The operation that ran last ended with _cleanup_client(phone): a
\* remove_session that returned (line 440), a complete_2fa that reached its
\* finally block (line 414), a complete_auth that reached its finally block
\* without the password being needed (line 373).
EndedWithCleanup(r) ==
    \/ r.op = "remove_session" /\ ~r.raised
    \/ r.op = "complete_2fa" /\ "sign_in_password" \in r.calls
    \/ r.op = "complete_auth" /\ "sign_in" \in r.calls /\ r.remote # "password_needed"

\* C40: once _cleanup_client(phone) has returned, the phone has no live
\* handle, whether client.disconnect() returned or raised.
C40_CleanupAlwaysUnregisters ==
    [][ EndedWithCleanup(last') => last'.phone \notin DOMAIN clients' ]_vars

====
